---- MODULE Spec2Model ----
(***************************************************************************)
(* KseniaWebSocketClient (src/src/websocket-client.ts): connection         *)
(* lifecycle, login handshake, discovery sweep, commands, heartbeat and    *)
(* reconnection, as a state machine.                                       *)
(*                                                                         *)
(* Every handler of the client is a function from the state it finds (a    *)
(* record w holding the fields of the object, the sockets the object has   *)
(* created and the Node timers it owns) to the state it leaves.  A handler  *)
(* and the promise continuations it wakes run in one event-loop turn, so   *)
(* each action of Next is one such turn.                                   *)
(*                                                                         *)
(* Time.  The heartbeat interval is the unit: lastPongAge is the number of *)
(* heartbeat intervals begun since lastPongReceived was written.  The      *)
(* reconnect delay is kept as a number (ms) but the moment the timeout     *)
(* fires is free, except that a socket destroyed by terminate() or by an   *)
(* aborted handshake emits its 'close' in the same event-loop turn, i.e.   *)
(* before any timer of the client fires (state "terminated").              *)
(***************************************************************************)
EXTENDS Integers, Sequences, FiniteSets, TLC

\* ---------------------------------------------------------------- bounds
MaxSockets == 2          \* sockets that exist at the same time
MaxAttempts == 6         \* reconnectAttempts saturates here (delay is capped from 4 on)
MaxDisconnects == 1      \* calls of disconnect() by the owner
RandSteps == 2           \* Math.random() yields n/RandSteps, n < RandSteps, or 999/1000
MaxChars == 3            \* characters of the text a checksummed message carries

\* ------------------------------------------------------ program constants
ReconnectInterval == 5000
MaxReconnectDelay == 60000
HeartbeatTimeoutFactor == 2

Pin == "1234"
Sentinel == "true"
None == "none"
Tokens == {"1", "2"}
IdLoginFields == Tokens \cup {"absent"}
LoginResults == {"OK", "FAIL"}
Sockets == 1..MaxSockets
NoSock == 0
AgeCap == HeartbeatTimeoutFactor + 1
Randoms == {<<n, RandSteps>> : n \in 0..(RandSteps - 1)} \cup {<<999, 1000>>}

Min(a, b) == IF a < b THEN a ELSE b
MaxMoveIntervals == 2   \* setInterval callbacks of one cover alive at once
MaxCaptured == 2        \* messages recorded by one debug capture
RegistrationCap == 2    \* registrations of one accessory that are told apart
MaxCaptures == 2        \* debug captures that leave a wrapper or an interval behind
MaxSnapshots == 3       \* device snapshots of one debug capture

VARIABLES
  ws,               \* this.ws: NoSock (undefined) or the socket last created
  isConnected,      \* this.isConnected
  idLogin,          \* this.idLogin: None (undefined) or a token
  heartbeatTimer,   \* this.heartbeatTimer: "undef" | "live" | "cleared" (handle of a cleared interval)
  heartbeatPending, \* this.heartbeatPending
  lastPongAge,      \* heartbeat intervals begun since this.lastPongReceived
  reconnectTimer,   \* this.reconnectTimer: "undef" | "pending" | "fired" | "cleared"
  reconnectAttempts,\* this.reconnectAttempts
  sock,             \* readyState of each socket: "free" | "connecting" | "open" | "closing" | "terminated" | "closed"
  promise,          \* who awaits the connect() promise of each socket: "platform" | "timer" | "settled"
  timers,           \* number of pending setTimeout callbacks of scheduleReconnect
  intervals,        \* number of live setInterval callbacks of startHeartbeat
  delay,            \* [k, nominal, final] of the reconnect timeout scheduled last, until it fires
  loginSent,        \* per socket: a LOGIN was written and the panel has not answered it
  tokenOf,          \* per socket: the token of the LOGIN_RES OK handled on it, or None
  pingOpen,         \* per socket: a ping was written and no pong came back since
  started,          \* the platform has called connect()
  disconnects,      \* calls of disconnect() so far
  attemptsMade,     \* reconnection attempts started since the last socket that opened
  loginRejected,    \* a LOGIN_RES whose RESULT is not OK has been handled
  forced,           \* [n, attempts]: forceReconnect calls / attempts begun since, for the pending detection
  lastCallback,     \* the connection callback made last: "none" | "onConnected" | "onDisconnected"
  body,             \* the text of the message sendKseniaCommand is given
  sent,             \* the string it passes to ws.send, <<>> before
  devices,          \* this.devices
  notified,         \* the device callbacks the last handler made, in order, with the device passed
  logged,           \* the frames the last handler passed to this.log, in order, as the log line shows them
  ev,               \* the handler that ran last, with what it found
  wrote,            \* the frames the last handler wrote to the transport, in order
  calls,            \* the callbacks and lifecycle calls the last handler made, in order
  cover,            \* one CoverAccessory: its fields and the setInterval callbacks still alive
  capture,          \* the DebugCaptureManager: isCapturing, rawMessages, and the file it wrote
  handlers,         \* platform.accessoryHandlers: per device id, the handler and the object it holds
  accessories,      \* platform.accessories: the device ids whose uuid has an accessory
  registered,       \* per device id, the registerPlatformAccessories calls made for it
  pushed            \* the updateCharacteristic calls of the last step, in order

\* The fields of the websocket client and what the last handler did.
client == <<ws, isConnected, idLogin, heartbeatTimer, heartbeatPending, lastPongAge,
            reconnectTimer, reconnectAttempts, sock, promise, timers, intervals, delay,
            loginSent, tokenOf, pingOpen, started, disconnects, attemptsMade,
            loginRejected, forced, lastCallback, body, sent, devices, notified, logged, ev,
            wrote, calls>>

vars == <<client, cover, capture, handlers, accessories, registered, pushed>>

\* new CoverAccessory for a cover at position 0: currentPosition and
\* targetPosition from the device, positionState 2 (stopped), no interval.
NewCover == [currentPosition |-> 0, targetPosition |-> 0, positionState |-> 2, moveIntervals |-> <<>>]
\* new DebugCaptureManager: rawMessages = [], isCapturing = false, no file yet.
NoFile == <<"no file">>
\* hooks: per socket object, the wrappers hookWebSocket has put around its
\* 'message' listeners and its send; snapshotIntervals: the setInterval callbacks
\* of startCapture that were not cleared; captureTimer: the timeout is pending.
NewCapture ==
  [isCapturing |-> FALSE, hooks |-> [s \in Sockets |-> 0], rawMessages |-> <<>>,
   deviceSnapshots |-> <<>>, snapshotIntervals |-> 0, captureTimer |-> FALSE, file |-> NoFile]

\* ------------------------------------------------------- CoverAccessory
\* config.coverStepSize ?? 5
CoverStepSize == 5
\* The target positions HomeKit asks for.
CoverTargets == {0, 10, 20}
Abs(n) == IF n < 0 THEN 0 - n ELSE n
Max(a, b) == IF a > b THEN a ELSE b
\* Math.ceil(distance / stepSize)
Ceil(distance, stepSize) == (distance + stepSize - 1) \div stepSize
Without(seq, i) == SubSeq(seq, 1, i - 1) \o SubSeq(seq, i + 1, Len(seq))
\* this.service.updateCharacteristic(characteristic, value) on an accessory a.
Push(a, characteristic, value) ==
  [a EXCEPT !.pushed = Append(@, [characteristic |-> characteristic, value |-> value])]

\* simulateMovement: the closure of a new setInterval, held in a local constant.
simulateMovement(a, targetPosition) ==
  LET startPosition == a.currentPosition
      distance == Abs(targetPosition - startPosition)
      direction == IF targetPosition > startPosition THEN 1 ELSE 0 - 1
      totalSteps == Ceil(distance, CoverStepSize)
  IN [a EXCEPT !.moveIntervals =
        Append(@, [startPosition |-> startPosition, targetPosition |-> targetPosition,
                   direction |-> direction, currentStep |-> 0, totalSteps |-> totalSteps])]

\* setTargetPosition up to the await of moveCover.
setTargetPositionBegin(a, targetPosition) ==
  Push([a EXCEPT !.targetPosition = targetPosition,
                 !.positionState = IF targetPosition > a.currentPosition THEN 1 ELSE 0],
       "PositionState", IF targetPosition > a.currentPosition THEN 1 ELSE 0)

\* setTargetPosition: moved tells whether moveCover returned or threw.
setTargetPosition(a, targetPosition, moved) ==
  IF targetPosition = a.currentPosition THEN a
  ELSE IF moved THEN simulateMovement(setTargetPositionBegin(a, targetPosition), targetPosition)
  ELSE setTargetPositionBegin(a, targetPosition)

\* One call of the setInterval callback i of simulateMovement.
moveInterval(a, i) ==
  LET t == a.moveIntervals[i]
      currentStep == t.currentStep + 1
  IN IF currentStep >= t.totalSteps
     THEN Push(Push([a EXCEPT !.currentPosition = t.targetPosition,
                              !.positionState = 2,
                              !.moveIntervals = Without(@, i)],
                    "CurrentPosition", t.targetPosition),
               "PositionState", 2)
     ELSE LET position == Min(100, Max(0, t.startPosition + t.direction * CoverStepSize * currentStep))
          IN Push([a EXCEPT !.currentPosition = position,
                            !.moveIntervals[i].currentStep = currentStep],
                  "CurrentPosition", position)

\* The state a handler works on.
World ==
  [ws |-> ws, isConnected |-> isConnected, idLogin |-> idLogin,
   heartbeatTimer |-> heartbeatTimer, heartbeatPending |-> heartbeatPending,
   lastPongAge |-> lastPongAge, reconnectTimer |-> reconnectTimer,
   reconnectAttempts |-> reconnectAttempts, sock |-> sock, promise |-> promise,
   timers |-> timers, intervals |-> intervals, delay |-> delay,
   loginSent |-> loginSent, tokenOf |-> tokenOf, pingOpen |-> pingOpen,
   devices |-> devices, notified |-> <<>>, logged |-> <<>>, thrown |-> FALSE,
   wrote |-> <<>>, calls |-> <<>>]

Has(seq, x) == \E i \in 1..Len(seq) : seq[i] = x
Count(seq, x) == Cardinality({i \in 1..Len(seq) : seq[i] = x})

\* ------------------------------------------------------------- transport
Live(st) == st \in {"connecting", "open"}
IsOpen(w) == w.ws # NoSock /\ w.sock[w.ws] = "open"

Frame(s, cmd, ptype, idl, pin, arg) ==
  [sock |-> s, cmd |-> cmd, ptype |-> ptype, idLogin |-> idl, pin |-> pin, arg |-> arg]

Write(w, f) == [w EXCEPT !.wrote = Append(@, f)]
\* maskSensitiveData (log-levels.ts): "PIN":"<anything>" becomes "PIN":"***".
Masked == "***"
maskSensitiveData(f) == [f EXCEPT !.pin = IF @ = None THEN None ELSE Masked]
\* this.log.info(`Sending: ${JSON.stringify(message)}`): the line shows every field.
Log(w, f) == [w EXCEPT !.logged = Append(@, f)]
Call(w, c) == [w EXCEPT !.calls = Append(@, c)]

\* ws.terminate(): destroys the socket; 'close' follows in the same turn.
terminate(w, s) ==
  IF w.sock[s] \in {"connecting", "open", "closing"}
  THEN [w EXCEPT !.sock[s] = "terminated"]
  ELSE w

\* ws.close(): closing handshake on an open socket, abort on a connecting one.
close(w, s) ==
  CASE w.sock[s] = "open" -> [w EXCEPT !.sock[s] = "closing"]
    [] w.sock[s] = "connecting" -> [w EXCEPT !.sock[s] = "terminated"]
    [] OTHER -> w

\* ---------------------------------------------------------- reconnection
\* Math.round(exponentialDelay + exponentialDelay * 0.1 * (Math.random() * 2 - 1))
\* with Math.random() = r[1] / r[2].
Jittered(exponentialDelay, r) ==
  (20 * r[2] * exponentialDelay + 2 * exponentialDelay * (2 * r[1] - r[2]) + 10 * r[2])
    \div (20 * r[2])

scheduleReconnectNoClear(w, r) ==
  LET exponentialDelay ==
        Min(ReconnectInterval * 2 ^ w.reconnectAttempts, MaxReconnectDelay)
  IN Call([w EXCEPT !.timers = @ + 1, !.reconnectTimer = "pending",
                    !.delay = [k |-> w.reconnectAttempts, nominal |-> exponentialDelay,
                               final |-> Jittered(exponentialDelay, r)]],
          "scheduleReconnect")

scheduleReconnectNoCap(w, r) ==
  LET exponentialDelay == ReconnectInterval * 2 ^ w.reconnectAttempts
  IN Call([w EXCEPT !.timers = (IF w.reconnectTimer = "pending" THEN @ - 1 ELSE @) + 1,
                    !.reconnectTimer = "pending",
                    !.delay = [k |-> w.reconnectAttempts, nominal |-> exponentialDelay,
                               final |-> Jittered(exponentialDelay, r)]],
          "scheduleReconnect")

scheduleReconnect(w, r) ==
  LET cleared == IF w.reconnectTimer = "pending" THEN w.timers - 1 ELSE w.timers
      exponentialDelay ==
        Min(ReconnectInterval * 2 ^ w.reconnectAttempts, MaxReconnectDelay)
  IN Call([w EXCEPT !.timers = cleared + 1, !.reconnectTimer = "pending",
                    !.delay = [k |-> w.reconnectAttempts, nominal |-> exponentialDelay,
                               final |-> Jittered(exponentialDelay, r)]],
          "scheduleReconnect")

\* A socket object nothing will hear from again can be forgotten.
Reusable(w, s) == w.sock[s] \in {"free", "closed"}
NewSock(w) == CHOOSE s \in Sockets : Reusable(w, s) /\ \A t \in Sockets : Reusable(w, t) => s <= t

\* connect(): new WebSocket(...) assigned to this.ws; the old socket is not closed.
connect(w, caller) ==
  LET s == NewSock(w)
  IN Call([w EXCEPT !.ws = s, !.sock[s] = "connecting", !.promise[s] = caller,
                    !.loginSent[s] = FALSE, !.tokenOf[s] = None, !.pingOpen[s] = FALSE],
          "connect")

\* sendMessage(): throws when this.ws is not open.
sendMessage(w, f) ==
  IF IsOpen(w) THEN [ok |-> TRUE, w |-> Write(Log(w, f), f)] ELSE [ok |-> FALSE, w |-> w]

login(w) ==
  LET r == sendMessage(w, Frame(w.ws, "LOGIN", "UNKNOWN", None, Pin, <<>>))
  IN IF r.ok THEN [ok |-> TRUE, w |-> [r.w EXCEPT !.loginSent[w.ws] = TRUE]] ELSE r

\* The continuations of the connect() promise of socket s.
resolveConnect(w, s) ==
  LET w1 == [w EXCEPT !.promise[s] = "settled"]
  IN IF w.promise[s] = "timer" THEN [w1 EXCEPT !.reconnectAttempts = 0] ELSE w1

rejectConnect(w, s, r) ==
  LET w1 == [w EXCEPT !.promise[s] = "settled"]
  IN IF w.promise[s] = "timer" THEN scheduleReconnect(w1, r) ELSE w1

\* ws.on('open')
onOpen(w, s, r) ==
  LET l == login([w EXCEPT !.isConnected = TRUE])
  IN IF l.ok THEN resolveConnect(Call(l.w, "onConnected"), s)
     ELSE rejectConnect(l.w, s, r)

\* ws.on('close')
onCloseNoReconnect(w, r) ==
  Call([w EXCEPT !.isConnected = FALSE], "onDisconnected")

onClose(w, r) ==
  scheduleReconnect(Call([w EXCEPT !.isConnected = FALSE], "onDisconnected"), r)

\* -------------------------------------------------------------- heartbeat
startHeartbeat(w) ==
  LET stopped == IF w.heartbeatTimer = "live" THEN w.intervals - 1 ELSE w.intervals
  IN [w EXCEPT !.intervals = stopped + 1, !.heartbeatTimer = "live",
               !.lastPongAge = 0, !.heartbeatPending = FALSE]

forceReconnectKeepSocket(w, r) ==
  LET w1 == [w EXCEPT !.heartbeatPending = FALSE,
                      !.intervals = IF w.heartbeatTimer = "live" THEN @ - 1 ELSE @,
                      !.heartbeatTimer = "undef"]
  IN scheduleReconnect(
       Call([Call(w1, "forceReconnect") EXCEPT !.isConnected = FALSE], "onDisconnected"), r)

forceReconnect(w, r) ==
  LET w1 == [w EXCEPT !.heartbeatPending = FALSE,
                      !.intervals = IF w.heartbeatTimer = "live" THEN @ - 1 ELSE @,
                      !.heartbeatTimer = "undef"]
      w2 == IF w1.ws # NoSock THEN terminate(Call(w1, "forceReconnect"), w1.ws)
            ELSE Call(w1, "forceReconnect")
  IN scheduleReconnect(Call([w2 EXCEPT !.isConnected = FALSE], "onDisconnected"), r)

\* ws.ping(): throws (caught by the caller) unless the socket is open.
ping(w) ==
  IF IsOpen(w)
  THEN [Write(w, Frame(w.ws, "ping", "", None, None, <<>>)) EXCEPT !.pingOpen[w.ws] = TRUE]
  ELSE w

heartbeatTickNeverForces(w, r) ==
  IF w.isConnected /\ w.ws # NoSock THEN ping([w EXCEPT !.heartbeatPending = TRUE]) ELSE w

\* The setInterval callback of startHeartbeat.
heartbeatTick(w, r) ==
  IF w.isConnected /\ w.ws # NoSock
  THEN IF w.heartbeatPending /\ w.lastPongAge > HeartbeatTimeoutFactor
       THEN forceReconnect(w, r)
       ELSE ping([w EXCEPT !.heartbeatPending = TRUE])
  ELSE w

\* ws.on('pong')
onPong(w) == [w EXCEPT !.heartbeatPending = FALSE, !.lastPongAge = 0]

\* ------------------------------------------------------- outgoing commands
\* buildPayload(): the sentinel "true" stands for the live token / the secret.
buildPayloadTokenOnly(w, payload) ==
  [idLogin |-> IF payload.idLogin = Sentinel THEN w.idLogin ELSE payload.idLogin,
   pin |-> payload.pin]

buildPayload(w, payload) ==
  [idLogin |-> IF payload.idLogin = Sentinel THEN w.idLogin ELSE payload.idLogin,
   pin |-> IF payload.pin = Sentinel THEN Pin ELSE payload.pin]

\* sendKseniaCommand(): throws when this.ws is not open, else one frame.
sendKseniaCommand(w, cmd, ptype, payload, arg) ==
  IF ~IsOpen(w) THEN [ok |-> FALSE, w |-> w]
  ELSE LET p == buildPayload(w, payload)
           f == Frame(w.ws, cmd, ptype, p.idLogin, p.pin, arg)
       IN [ok |-> TRUE, w |-> Write(Log(w, f), f)]

Request(cmd, ptype, arg) == [cmd |-> cmd, ptype |-> ptype, arg |-> arg]

\* The requests of requestSystemData(), in the order of the source.
SystemDataRequests ==
  << Request("READ", "ZONES", <<"ALL", "ALL">>),
     Request("READ", "MULTI_TYPES", <<"OUTPUTS", "BUS_HAS", "SCENARIOS">>),
     Request("READ", "STATUS_OUTPUTS", <<>>),
     Request("READ", "STATUS_BUS_HA_SENSORS", <<>>),
     Request("READ", "STATUS_SYSTEM", <<>>),
     Request("REALTIME", "REGISTER",
             <<"STATUS_ZONES", "STATUS_OUTPUTS", "STATUS_BUS_HA_SENSORS",
               "STATUS_SYSTEM", "SCENARIOS">>) >>

\* The awaits of requestSystemData(): the first send that throws ends the sweep.
RECURSIVE SendAll(_, _)
SendAll(w, reqs) ==
  IF reqs = <<>> THEN w
  ELSE LET r == sendKseniaCommand(w, Head(reqs).cmd, Head(reqs).ptype,
                                  [idLogin |-> w.idLogin, pin |-> None], Head(reqs).arg)
       IN IF r.ok THEN SendAll(r.w, Tail(reqs)) ELSE w

requestSystemDataSwapped(w) ==
  IF w.idLogin = None THEN w
  ELSE SendAll(w, <<SystemDataRequests[2], SystemDataRequests[1]>> \o
                  SubSeq(SystemDataRequests, 3, Len(SystemDataRequests)))

requestSystemData(w) ==
  IF w.idLogin = None THEN w ELSE SendAll(w, SystemDataRequests)

\* String(message.PAYLOAD.ID_LOGIN ?? '1')
IdLoginOf(field) == IF field = "absent" THEN "1" ELSE field

handleLoginResponseAnyResult(w, result, field) ==
  requestSystemData(startHeartbeat([w EXCEPT !.idLogin = IdLoginOf(field)]))

handleLoginResponse(w, result, field) ==
  IF result = "OK"
  THEN requestSystemData(startHeartbeat([w EXCEPT !.idLogin = IdLoginOf(field)]))
  ELSE w

\* number.toString() for the numbers the commands are called with.
ToStr(n) ==
  CASE n = 0 -> "0" [] n = 10 -> "10" [] n = 20 -> "20" [] n = 21 -> "21"
    [] n = 50 -> "50" [] n = 100 -> "100"

DeviceId == "1"
UserPayload == [idLogin |-> Sentinel, pin |-> Sentinel]
Rejected(w) == [ok |-> FALSE, w |-> w]

switchLight(w, on) ==
  IF w.idLogin = None THEN Rejected(w)
  ELSE sendKseniaCommand(w, "CMD_USR", "CMD_SET_OUTPUT", UserPayload,
                         <<DeviceId, IF on THEN "ON" ELSE "OFF">>)

dimLight(w, brightness) ==
  IF w.idLogin = None THEN Rejected(w)
  ELSE sendKseniaCommand(w, "CMD_USR", "CMD_SET_OUTPUT", UserPayload,
                         <<DeviceId, ToStr(brightness)>>)

moveCover(w, position) ==
  IF w.idLogin = None THEN Rejected(w)
  ELSE sendKseniaCommand(w, "CMD_USR", "CMD_SET_OUTPUT", UserPayload,
                         <<DeviceId, CASE position = 0 -> "DOWN"
                                       [] position = 100 -> "UP"
                                       [] OTHER -> ToStr(position)>>)

setThermostatMode(w, mode) ==
  IF w.idLogin = None THEN Rejected(w)
  ELSE sendKseniaCommand(w, "WRITE", "THERMOSTAT", [idLogin |-> w.idLogin, pin |-> None],
                         <<DeviceId, CASE mode = "heat" -> "1" [] mode = "cool" -> "2"
                                       [] mode = "auto" -> "3" [] OTHER -> "0">>)

setThermostatTemperature(w, temperature) ==
  IF w.idLogin = None THEN Rejected(w)
  ELSE sendKseniaCommand(w, "WRITE", "THERMOSTAT", [idLogin |-> w.idLogin, pin |-> None],
                         <<DeviceId, ToStr(temperature)>>)

triggerScenario(w) ==
  IF w.idLogin = None THEN Rejected(w)
  ELSE sendKseniaCommand(w, "CMD_USR", "CMD_EXE_SCENARIO", UserPayload, <<DeviceId>>)

CommandOps == {"switchLight", "dimLight", "moveCover", "setThermostatMode",
               "setThermostatTemperature", "triggerScenario"}

\* The values each command is called with.
CommandArgs(op) ==
  CASE op = "switchLight" -> {TRUE}
    [] op = "dimLight" -> {50}
    [] op = "moveCover" -> {0}
    [] op = "setThermostatMode" -> {"heat"}
    [] op = "setThermostatTemperature" -> {21}
    [] op = "triggerScenario" -> {0}

Invoke(w, op, a) ==
  CASE op = "switchLight" -> switchLight(w, a)
    [] op = "dimLight" -> dimLight(w, a)
    [] op = "moveCover" -> moveCover(w, a)
    [] op = "setThermostatMode" -> setThermostatMode(w, a)
    [] op = "setThermostatTemperature" -> setThermostatTemperature(w, a)
    [] op = "triggerScenario" -> triggerScenario(w)

\* --------------------------------------------------------------- teardown
disconnect(w) ==
  LET w1 == [w EXCEPT !.intervals = IF w.heartbeatTimer = "live" THEN @ - 1 ELSE @,
                      !.heartbeatTimer = IF @ = "undef" THEN "undef" ELSE "cleared",
                      !.timers = IF w.reconnectTimer = "pending" THEN @ - 1 ELSE @,
                      !.reconnectTimer = IF @ = "undef" THEN "undef"
                                         ELSE IF @ = "pending" THEN "cleared" ELSE @]
      w2 == IF w1.ws # NoSock THEN close(w1, w1.ws) ELSE w1
  IN [Call(w2, "disconnect") EXCEPT !.isConnected = FALSE]

\* ------------------------------------------------------- device registry
\* this.devices is a function from the identifiers present to the devices.  An
\* identifier `${prefix}_${ID}` is the pair <<prefix, ID>>.  A field or element
\* that is undefined or null in the frame is one of the values below.
Undefined == "<undefined>"
NoPayload == [undefined |-> TRUE]
NoDomus == [undefined |-> TRUE]
NullRecord == [null |-> TRUE]
NaN == 0 - 1
NoNumber == 0 - 2

\* parseInt(s, 10) for the strings the frames carry.
parseInt(s) ==
  CASE s = "0" -> 0 [] s = "30" -> 30 [] s = "50" -> 50 [] s = "80" -> 80
    [] s = "100" -> 100 [] s = "45" -> 45 [] s = "300" -> 300
    [] OTHER -> NaN

\* parseFloat(s), in tenths of a degree.
parseFloat(s) ==
  CASE s = "0" -> 0 [] s = "21.5" -> 215 [] s = "19" -> 190 [] s = "22" -> 220
    [] OTHER -> NaN

\* String.prototype.toUpperCase() for the categories and states the frames carry.
toUpperCase(s) ==
  CASE s = "light" -> "LIGHT" [] s = "roll" -> "ROLL" [] s = "gate" -> "GATE"
    [] s = "up" -> "UP" [] s = "down" -> "DOWN" [] s = "stop" -> "STOP"
    [] s = "open" -> "OPEN" [] s = "close" -> "CLOSE" [] s = "therm" -> "THERM"
    [] OTHER -> s

\* a ?? b
Coalesce(a, b) == IF a = Undefined THEN b ELSE a
\* DES || `${label} ${ID}`
NameOf(des, label, id) == IF des = "" \/ des = Undefined THEN <<label, id>> ELSE <<des>>
DescriptionOf(des) == IF des = "" \/ des = Undefined THEN <<>> ELSE <<des>>

Device(prefix, id, type, name, description, status) ==
  [id |-> <<prefix, id>>, type |-> type, name |-> name,
   description |-> description, status |-> status]

Throw(w) == [w EXCEPT !.thrown = TRUE]
\* records.forEach(Op): the elements in order, until one throws.
ForEach(w, records, Op(_, _)) ==
  LET after[i \in 0..Len(records)] ==
        IF i = 0 THEN w
        ELSE IF after[i - 1].thrown THEN after[i - 1]
        ELSE Op(after[i - 1], records[i])
  IN after[Len(records)]
setDuplicate(w, device) ==
  IF device.id \in DOMAIN w.devices
  THEN [w EXCEPT !.devices = (<<device.id[1], "again">> :> device) @@ @]
  ELSE [w EXCEPT !.devices = (device.id :> device) @@ @]
\* this.devices.set(device.id, device)
set(w, device) == [w EXCEPT !.devices = (device.id :> device) @@ @]
has(w, id) == id \in DOMAIN w.devices
\* this.onDeviceDiscovered?.(device) and this.onDeviceStatusUpdate?.(device): the
\* callback sees the device as it is at the call.
Notify(w, cb, device) == [w EXCEPT !.notified = Append(@, [cb |-> cb, device |-> device])]

parseZoneData(zoneData) ==
  Device("zone", zoneData.ID, "zone", NameOf(zoneData.DES, "Zone", zoneData.ID),
         DescriptionOf(zoneData.DES),
         [armed |-> zoneData.STATUS = "1", bypassed |-> FALSE, fault |-> FALSE,
          open |-> zoneData.STATUS = "2"])

\* null is NullRecord.
parseOutputDataClimate(outputData) ==
  LET category == Coalesce(outputData.CAT, Coalesce(outputData.TYPE, ""))
      systemId == outputData.ID
  IN CASE toUpperCase(category) = "LIGHT" ->
            Device("light", systemId, "light", NameOf(outputData.DES, "Light", systemId),
                   DescriptionOf(outputData.DES),
                   [on |-> FALSE, brightness |-> NoNumber, dimmable |-> FALSE])
       [] toUpperCase(category) \in {"ROLL", "GATE"} ->
            Device("cover", systemId, "cover", NameOf(outputData.DES, "Cover", systemId),
                   DescriptionOf(outputData.DES),
                   [position |-> 0, targetPosition |-> NoNumber, state |-> "stopped"])
       [] OTHER ->
            Device("thermostat", systemId, "thermostat",
                   NameOf(outputData.DES, "Thermostat", systemId), DescriptionOf(outputData.DES),
                   [currentTemperature |-> NoNumber, targetTemperature |-> NoNumber, mode |-> "off"])

parseOutputData(outputData) ==
  LET category == Coalesce(outputData.CAT, Coalesce(outputData.TYPE, ""))
      categoryUpper == toUpperCase(category)
      systemId == outputData.ID
  IN CASE categoryUpper = "LIGHT" ->
            Device("light", systemId, "light", NameOf(outputData.DES, "Light", systemId),
                   DescriptionOf(outputData.DES),
                   [on |-> FALSE, brightness |-> NoNumber, dimmable |-> FALSE])
       [] categoryUpper = "ROLL" ->
            Device("cover", systemId, "cover", NameOf(outputData.DES, "Cover", systemId),
                   DescriptionOf(outputData.DES),
                   [position |-> 0, targetPosition |-> NoNumber, state |-> "stopped"])
       [] categoryUpper = "GATE" ->
            Device("cover", systemId, "cover", NameOf(outputData.DES, "Gate", systemId),
                   DescriptionOf(outputData.DES),
                   [position |-> 0, targetPosition |-> NoNumber, state |-> "stopped"])
       [] OTHER -> NullRecord

parseScenarioData(scenarioData) ==
  Device("scenario", scenarioData.ID, "scenario",
         NameOf(scenarioData.DES, "Scenario", scenarioData.ID),
         DescriptionOf(scenarioData.DES), [active |-> FALSE])

\* One element of payload.ZONES.forEach, payload.OUTPUTS.forEach, ...: reading a
\* property of a null element throws.
discoverZone(w, zone) ==
  IF zone = NullRecord THEN Throw(w)
  ELSE LET device == parseZoneData(zone)
       IN Notify(set(w, device), "onDeviceDiscovered", device)

discoverOutput(w, output) ==
  IF output = NullRecord THEN Throw(w)
  ELSE LET device == parseOutputData(output)
       IN IF device # NullRecord
          THEN Notify(set(w, device), "onDeviceDiscovered", device)
          ELSE w

discoverScenarioUnfiltered(w, scenario) ==
  IF scenario = NullRecord THEN Throw(w)
  ELSE LET device == parseScenarioData(scenario)
       IN Notify(set(w, device), "onDeviceDiscovered", device)

discoverScenario(w, scenario) ==
  IF scenario = NullRecord THEN Throw(w)
  ELSE IF scenario.CAT = "ARM" \/ scenario.CAT = "DISARM" THEN w
  ELSE LET device == parseScenarioData(scenario)
       IN Notify(set(w, device), "onDeviceDiscovered", device)

SensorDevice(sensor, suffix, label, sensorType, value, unit) ==
  LET baseName == IF sensor.DES = "" \/ sensor.DES = Undefined
                  THEN <<"Sensor", sensor.ID>> ELSE <<sensor.DES>>
  IN Device(suffix, sensor.ID, "sensor", Append(baseName, label), Append(baseName, label),
            [sensorType |-> sensorType, value |-> value, unit |-> unit])

discoverBusHaTwoDevices(w, sensor) ==
  IF sensor = NullRecord THEN Throw(w)
  ELSE LET tempDevice == SensorDevice(sensor, "sensor_temp", "Temperatura", "temperature", 0, "C")
           humDevice == SensorDevice(sensor, "sensor_hum", "Umidita", "humidity", 50, "%")
       IN Notify(set(Notify(set(w, tempDevice), "onDeviceDiscovered", tempDevice),
                     humDevice), "onDeviceDiscovered", humDevice)

discoverBusHa(w, sensor) ==
  IF sensor = NullRecord THEN Throw(w)
  ELSE LET tempDevice == SensorDevice(sensor, "sensor_temp", "Temperatura", "temperature", 0, "C")
           humDevice == SensorDevice(sensor, "sensor_hum", "Umidita", "humidity", 50, "%")
           lightDevice == SensorDevice(sensor, "sensor_light", "Luminosita", "light", 100, "lux")
           w1 == Notify(set(w, tempDevice), "onDeviceDiscovered", tempDevice)
           w2 == Notify(set(w1, humDevice), "onDeviceDiscovered", humDevice)
       IN Notify(set(w2, lightDevice), "onDeviceDiscovered", lightDevice)

\* ---------------------------------------------------------- status updates
\* The device objects are mutated in place: the entry of the registry changes.
SetStatus(w, id, status) == [w EXCEPT !.devices[id].status = status]

mapCoverPosition(sta, pos) ==
  IF pos # Undefined /\ pos # "" THEN parseInt(pos)
  ELSE LET u == toUpperCase(sta)
       IN CASE u \in {"OPEN", "UP"} -> 100
            [] u \in {"CLOSE", "DOWN"} -> 0
            [] u = "STOP" -> 50
            [] OTHER -> 0

mapCoverState(sta, pos, tpos) ==
  IF pos # Undefined /\ tpos # Undefined
  THEN LET currentPos == parseInt(pos)
           targetPos == parseInt(tpos)
           \* a comparison with NaN is false
           numbers == currentPos # NaN /\ targetPos # NaN
       IN IF numbers /\ currentPos = targetPos THEN "stopped"
          ELSE IF numbers /\ currentPos < targetPos THEN "opening"
          ELSE "closing"
  ELSE LET u == toUpperCase(sta)
       IN CASE u \in {"UP", "OPEN"} -> "opening"
            [] u \in {"DOWN", "CLOSE"} -> "closing"
            [] OTHER -> "stopped"

\* String.prototype.toLowerCase() for the modes the frames carry.
toLowerCase(s) ==
  CASE s = "HEAT" -> "heat" [] s = "COOL" -> "cool" [] s = "AUTO" -> "auto"
    [] s = "OFF" -> "off" [] OTHER -> s

mapThermostatMode(mode) ==
  LET m == toLowerCase(mode)
  IN CASE m \in {"heat", "heating", "riscaldamento"} -> "heat"
       [] m \in {"cool", "cooling", "raffreddamento"} -> "cool"
       [] m \in {"auto", "automatic", "automatico"} -> "auto"
       [] OTHER -> "off"

updateLightOnlyIfChanged(w, output) ==
  LET id == <<"light", output.ID>>
  IN IF has(w, id) /\ w.devices[id].type = "light"
     THEN LET old == w.devices[id].status
              status == [on |-> output.STA = "ON",
                         brightness |-> IF output.POS # Undefined
                                        THEN parseInt(output.POS) ELSE old.brightness,
                         dimmable |-> IF output.POS # Undefined THEN TRUE ELSE old.dimmable]
              w1 == SetStatus(w, id, status)
          IN IF old.on # status.on THEN Notify(w1, "onDeviceStatusUpdate", w1.devices[id]) ELSE w1
     ELSE w

updateLight(w, output) ==
  LET id == <<"light", output.ID>>
  IN IF has(w, id) /\ w.devices[id].type = "light"
     THEN LET old == w.devices[id].status
              status == [on |-> output.STA = "ON",
                         brightness |-> IF output.POS # Undefined
                                        THEN parseInt(output.POS) ELSE old.brightness,
                         dimmable |-> IF output.POS # Undefined THEN TRUE ELSE old.dimmable]
              w1 == SetStatus(w, id, status)
          IN Notify(w1, "onDeviceStatusUpdate", w1.devices[id])
     ELSE w

updateCover(w, output) ==
  LET id == <<"cover", output.ID>>
  IN IF has(w, id) /\ w.devices[id].type = "cover"
     THEN LET status == [position |-> mapCoverPosition(output.STA, output.POS),
                         targetPosition |->
                           parseInt(Coalesce(output.TPOS, Coalesce(output.POS, "0"))),
                         state |-> mapCoverState(output.STA, output.POS, output.TPOS)]
              w1 == SetStatus(w, id, status)
          IN Notify(w1, "onDeviceStatusUpdate", w1.devices[id])
     ELSE w

updateThermostat(w, output) ==
  LET id == <<"thermostat", output.ID>>
  IN IF has(w, id) /\ w.devices[id].type = "thermostat"
     THEN LET old == w.devices[id].status
              status ==
                [currentTemperature |-> IF output.TEMP_CURRENT # Undefined
                                        THEN parseFloat(output.TEMP_CURRENT)
                                        ELSE old.currentTemperature,
                 targetTemperature |-> IF output.TEMP_TARGET # Undefined
                                       THEN parseFloat(output.TEMP_TARGET)
                                       ELSE old.targetTemperature,
                 mode |-> IF output.MODE # Undefined
                          THEN mapThermostatMode(output.MODE) ELSE old.mode]
              \* NaN !== NaN
              differs(a, b) == a # b \/ a = NaN
              updated ==
                \/ output.TEMP_CURRENT # Undefined
                     /\ differs(old.currentTemperature, status.currentTemperature)
                \/ output.TEMP_TARGET # Undefined
                     /\ differs(old.targetTemperature, status.targetTemperature)
                \/ output.MODE # Undefined /\ old.mode # status.mode
              w1 == SetStatus(w, id, status)
          IN IF updated THEN Notify(w1, "onDeviceStatusUpdate", w1.devices[id]) ELSE w1
     ELSE w

updateOutputStatus(w, output) ==
  IF output = NullRecord THEN Throw(w)
  ELSE updateThermostat(updateCover(updateLight(w, output), output), output)

updateOutputStatuses(w, outputs) == ForEach(w, outputs, updateOutputStatus)

updateSensor(w, sensor, prefix, value) ==
  LET id == <<prefix, sensor.ID>>
  IN IF has(w, id) /\ w.devices[id].type = "sensor"
     THEN LET w1 == SetStatus(w, id, [w.devices[id].status EXCEPT !.value = value])
          IN Notify(w1, "onDeviceStatusUpdate", w1.devices[id])
     ELSE w

updateSensorStatus(w, sensor) ==
  IF sensor = NullRecord THEN Throw(w)
  ELSE IF sensor.DOMUS = NoDomus THEN w
  ELSE LET w1 == updateSensor(w, sensor, "sensor_temp",
                              parseFloat(Coalesce(sensor.DOMUS.TEM, "0")))
           w2 == updateSensor(w1, sensor, "sensor_hum",
                              parseInt(Coalesce(sensor.DOMUS.HUM, "50")))
       IN updateSensor(w2, sensor, "sensor_light",
                       parseInt(Coalesce(sensor.DOMUS.LHT, "100")))

updateSensorStatuses(w, sensors) == ForEach(w, sensors, updateSensorStatus)

updateZoneStatusCreates(w, zone) ==
  IF zone = NullRecord THEN Throw(w)
  ELSE LET id == <<"zone", zone.ID>>
           status == [open |-> zone.STA = "A", bypassed |-> zone.BYP = "YES",
                      armed |-> zone.A = "Y", fault |-> zone.FM = "T"]
           device == Device("zone", zone.ID, "zone", <<"Zone", zone.ID>>, <<>>, status)
           w1 == IF has(w, id) THEN SetStatus(w, id, status) ELSE set(w, device)
       IN Notify(w1, "onDeviceStatusUpdate", w1.devices[id])

updateZoneStatus(w, zone) ==
  IF zone = NullRecord THEN Throw(w)
  ELSE LET id == <<"zone", zone.ID>>
       IN IF has(w, id) /\ w.devices[id].type = "zone"
          THEN LET status == [open |-> zone.STA = "A", bypassed |-> zone.BYP = "YES",
                              armed |-> zone.A = "Y", fault |-> zone.FM = "T"]
                   w1 == SetStatus(w, id, status)
               IN Notify(w1, "onDeviceStatusUpdate", w1.devices[id])
          ELSE w

updateZoneStatuses(w, zones) == ForEach(w, zones, updateZoneStatus)

\* system.TEMP.IN.replace('+', '')
StripPlus(s) == CASE s = "+21.5" -> "21.5" [] s = "+19" -> "19" [] OTHER -> s
NoTemp == [undefined |-> TRUE]
PanelIds == <<"1", "2">>

\* One thermostat of this.devices.forEach in updateSystemTemperatures.
updateThermostatTemperature(w, id, internalTemp) ==
  IF has(w, id) /\ w.devices[id].type = "thermostat"
  THEN LET old == w.devices[id].status
           status == [old EXCEPT
                        !.currentTemperature = internalTemp,
                        \* Math.round(internalTemp + 1)
                        !.targetTemperature =
                          IF @ # NoNumber THEN @
                          ELSE IF internalTemp = NaN THEN NaN
                          ELSE ((internalTemp + 10 + 5) \div 10) * 10]
           w1 == SetStatus(w, id, status)
       IN Notify(w1, "onDeviceStatusUpdate", w1.devices[id])
  ELSE w

RECURSIVE updateThermostatTemperatures(_, _, _)
updateThermostatTemperatures(w, ids, internalTemp) ==
  IF ids = <<>> THEN w
  ELSE updateThermostatTemperatures(
         updateThermostatTemperature(w, <<"thermostat", Head(ids)>>, internalTemp),
         Tail(ids), internalTemp)

updateSystemTemperature(w, system) ==
  IF system = NullRecord THEN Throw(w)
  ELSE IF system.TEMP = NoTemp THEN w
  ELSE IF system.TEMP.IN = Undefined \/ system.TEMP.IN = "" THEN w
  ELSE updateThermostatTemperatures(w, PanelIds, parseFloat(StripPlus(system.TEMP.IN)))

updateSystemTemperatures(w, systemData) == ForEach(w, systemData, updateSystemTemperature)

\* ---------------------------------------------------------- inbound frames
\* A status object: the payload of REALTIME_RES, or one entry of the payload of
\* STATUS_UPDATE and REALTIME CHANGES.  An absent array is the empty array: the
\* code only logs its length before the forEach.
NoStatus ==
  [STATUS_OUTPUTS |-> <<>>, STATUS_BUS_HA_SENSORS |-> <<>>, STATUS_ZONES |-> <<>>,
   STATUS_SYSTEM |-> <<>>]

\* message.PAYLOAD: its arrays, and entries, the values of its other keys that are
\* objects.
EmptyPayload ==
  [ZONES |-> <<>>, OUTPUTS |-> <<>>, SCENARIOS |-> <<>>, BUS_HAS |-> <<>>,
   STATUS_OUTPUTS |-> <<>>, STATUS_BUS_HA_SENSORS |-> <<>>, STATUS_ZONES |-> <<>>,
   STATUS_SYSTEM |-> <<>>, entries |-> <<>>, RESULT |-> Undefined, ID_LOGIN |-> "absent"]

Message(cmd, ptype, payload) == [CMD |-> cmd, PAYLOAD_TYPE |-> ptype, PAYLOAD |-> payload]

ReadsPayload == {"ZONES", "MULTI_TYPES", "STATUS_OUTPUTS", "STATUS_BUS_HA_SENSORS", "STATUS_SYSTEM"}

handleReadResponseDiscoversOnStatus(w, message) ==
  LET payload == message.PAYLOAD
  IN IF payload = NoPayload
     THEN (IF message.PAYLOAD_TYPE \in ReadsPayload THEN Throw(w) ELSE w)
     ELSE CASE message.PAYLOAD_TYPE \in {"ZONES", "STATUS_ZONES"} ->
                 ForEach(ForEach(w, payload.ZONES, discoverZone),
                         payload.STATUS_ZONES, updateZoneStatusCreates)
            [] message.PAYLOAD_TYPE = "MULTI_TYPES" ->
                 ForEach(ForEach(ForEach(w, payload.OUTPUTS, discoverOutput),
                                 payload.SCENARIOS, discoverScenario),
                         payload.BUS_HAS, discoverBusHa)
            [] message.PAYLOAD_TYPE = "STATUS_OUTPUTS" ->
                 updateOutputStatuses(w, payload.STATUS_OUTPUTS)
            [] message.PAYLOAD_TYPE = "STATUS_BUS_HA_SENSORS" ->
                 updateSensorStatuses(w, payload.STATUS_BUS_HA_SENSORS)
            [] message.PAYLOAD_TYPE = "STATUS_SYSTEM" ->
                 updateSystemTemperatures(w, payload.STATUS_SYSTEM)
            [] OTHER -> w

handleReadResponse(w, message) ==
  LET payload == message.PAYLOAD
  IN IF payload = NoPayload
     THEN (IF message.PAYLOAD_TYPE \in ReadsPayload THEN Throw(w) ELSE w)
     ELSE CASE message.PAYLOAD_TYPE = "ZONES" -> ForEach(w, payload.ZONES, discoverZone)
            [] message.PAYLOAD_TYPE = "MULTI_TYPES" ->
                 ForEach(ForEach(ForEach(w, payload.OUTPUTS, discoverOutput),
                                 payload.SCENARIOS, discoverScenario),
                         payload.BUS_HAS, discoverBusHa)
            [] message.PAYLOAD_TYPE = "STATUS_OUTPUTS" ->
                 updateOutputStatuses(w, payload.STATUS_OUTPUTS)
            [] message.PAYLOAD_TYPE = "STATUS_BUS_HA_SENSORS" ->
                 updateSensorStatuses(w, payload.STATUS_BUS_HA_SENSORS)
            [] message.PAYLOAD_TYPE = "STATUS_SYSTEM" ->
                 updateSystemTemperatures(w, payload.STATUS_SYSTEM)
            [] OTHER -> w

\* The four arrays of one status object, in the order the code reads them.
applyStatusData(w, statusData) ==
  IF statusData = NullRecord THEN w
  ELSE updateSystemTemperatures(
         updateZoneStatuses(
           updateSensorStatuses(
             updateOutputStatuses(w, statusData.STATUS_OUTPUTS),
             statusData.STATUS_BUS_HA_SENSORS),
           statusData.STATUS_ZONES),
         statusData.STATUS_SYSTEM)

handleRealtimeResponse(w, message) ==
  IF message.PAYLOAD = NoPayload THEN Throw(w)
  ELSE applyStatusData(w, [k \in DOMAIN NoStatus |-> message.PAYLOAD[k]])

handleStatusUpdate(w, message) ==
  IF message.PAYLOAD = NoPayload THEN Throw(w)
  ELSE ForEach(w, message.PAYLOAD.entries, applyStatusData)

\* What the 'message' event delivers: text that is not JSON, the JSON text null, or
\* the JSON text of a message.
Data(text, msg) == [text |-> text, msg |-> msg]
NoData == Data("", NullRecord)
Json(msg) == Data("json", msg)
SyntaxError == [error |-> "SyntaxError"]
\* JSON.parse(data)
JSONparse(data) ==
  CASE data.text = "json" -> data.msg
    [] data.text = "null" -> NullRecord
    [] OTHER -> SyntaxError

\* The switch of handleMessage; reading message.CMD of null throws.
dispatch(w, message) ==
  IF message = NullRecord THEN Throw(w)
  ELSE CASE message.CMD = "LOGIN_RES" ->
              IF message.PAYLOAD = NoPayload THEN handleLoginResponse(w, Undefined, "absent")
              ELSE handleLoginResponse(w, message.PAYLOAD.RESULT, message.PAYLOAD.ID_LOGIN)
         [] message.CMD = "READ_RES" -> handleReadResponse(w, message)
         [] message.CMD = "REALTIME_RES" -> handleRealtimeResponse(w, message)
         [] message.CMD = "REALTIME" ->
              IF message.PAYLOAD_TYPE = "CHANGES" THEN handleStatusUpdate(w, message) ELSE w
         [] message.CMD = "STATUS_UPDATE" -> handleStatusUpdate(w, message)
         [] OTHER -> w

\* catch (error) { this.log.error('Message parsing error:', ...) }
Caught(w) == Call([w EXCEPT !.thrown = FALSE], "log.error")

handleMessageClosesOnError(w, data) ==
  LET message == JSONparse(data)
      w1 == IF message = SyntaxError THEN Throw(w) ELSE dispatch(w, message)
  IN IF w1.thrown
     THEN (IF w1.ws # NoSock THEN close(Caught(w1), w1.ws) ELSE Caught(w1))
     ELSE w1

handleMessage(w, data) ==
  LET message == JSONparse(data)
      w1 == IF message = SyntaxError THEN Throw(w) ELSE dispatch(w, message)
  IN IF w1.thrown THEN Caught(w1) ELSE w1

\* --------------------------------------------------------------- checksum
\* A string is the sequence of its UTF-16 code units.
Quote == 34
Backslash == 92
\* '{"PAYLOAD":"', the fields serialized before CRC_16 being one string field
OpenText == <<123, 34, 80, 65, 89, 76, 79, 65, 68, 34, 58, 34>>
\* '"CRC_16"'
CrcKey == <<34, 67, 82, 67, 95, 49, 54, 34>>
\* '0x0000'
Placeholder == <<48, 120, 48, 48, 48, 48>>

\* JSON.stringify of a string: the quotation mark and the backslash are escaped.
Escaped(text) ==
  LET upTo[i \in 0..Len(text)] ==
        IF i = 0 THEN <<>>
        ELSE IF text[i] \in {Quote, Backslash} THEN upTo[i - 1] \o <<Backslash, text[i]>>
        ELSE Append(upTo[i - 1], text[i])
  IN upTo[Len(text)]

\* JSON.stringify(message): CRC_16 is the last key of the object literal.
stringify(text, crc) ==
  OpenText \o Escaped(text) \o <<Quote, 44>> \o CrcKey \o <<58, Quote>> \o crc \o <<Quote, 125>>

\* The loop of calculateCRC16 that builds utf8; a code unit that opens a surrogate
\* pair takes the next one with it (charCodeAt past the end is NaN, NaN & 0x3f = 0).
utf8Of(s) ==
  LET from[i \in 1..(Len(s) + 2)] ==
        IF i > Len(s) THEN <<>>
        ELSE LET c == s[i]
             IN IF c < 128 THEN <<c>> \o from[i + 1]
                ELSE IF c < 2048 THEN <<192 + (c \div 64), 128 + (c % 64)>> \o from[i + 1]
                ELSE IF c < 55296 \/ c >= 57344
                  THEN <<224 + (c \div 4096), 128 + ((c \div 64) % 64), 128 + (c % 64)>>
                       \o from[i + 1]
                ELSE LET low == IF i + 1 > Len(s) THEN 0 ELSE s[i + 1] % 64
                         surrogate == 65536 + (c % 1024) * 1024 + low
                     IN <<240 + (surrogate \div 262144), 128 + ((surrogate \div 4096) % 64),
                          128 + ((surrogate \div 64) % 64), 128 + (surrogate % 64)>>
                        \o from[i + 2]
  IN from[1]

\* jsonString.lastIndexOf(sub), 0-based, -1 if absent
lastIndexOf(s, sub) ==
  LET at == {i \in 1..(Len(s) - Len(sub) + 1) : SubSeq(s, i, i + Len(sub) - 1) = sub}
  IN IF at = {} THEN 0 - 1 ELSE (CHOOSE i \in at : \A j \in at : j <= i) - 1

RECURSIVE Xor(_, _)
Xor(a, b) ==
  IF a = 0 THEN b ELSE IF b = 0 THEN a
  ELSE 2 * Xor(a \div 2, b \div 2) + ((a + b) % 2)

\* One pass of the inner loop: the bit of charCode selected by iCrc.
crcBit(crc, bit) ==
  LET flagCrc == crc >= 32768
      shifted == (crc * 2) % 65536
      added == IF bit = 1 THEN shifted + 1 ELSE shifted
  IN IF flagCrc THEN Xor(added, 4129) ELSE added

\* for (let iCrc = 0x80; iCrc; iCrc >>= 1)
crcByte(crc, charCode) ==
  LET b(k) == (charCode \div (2 ^ (8 - k))) % 2
  IN crcBit(crcBit(crcBit(crcBit(crcBit(crcBit(crcBit(crcBit(crc, b(1)), b(2)), b(3)), b(4)),
                                 b(5)), b(6)), b(7)), b(8))

\* for (let i = 0; i < dataLen; i++); utf8[i] past the end is undefined, and
\* undefined & iCrc = 0.  Each byte is folded into crc before the next is read.
RECURSIVE crcOver(_, _, _, _)
crcOver(crc, utf8, i, dataLen) ==
  IF i >= dataLen THEN crc
  ELSE LET next == crcByte(crc, IF i < Len(utf8) THEN utf8[i + 1] ELSE 0)
       IN IF next >= 0 THEN crcOver(next, utf8, i + 1, dataLen) ELSE next

\* '0x' + crc.toString(16).padStart(4, '0')
HexDigit(d) == IF d < 10 THEN 48 + d ELSE 97 + (d - 10)
toHex(crc) ==
  <<48, 120, HexDigit(crc \div 4096), HexDigit((crc \div 256) % 16),
    HexDigit((crc \div 16) % 16), HexDigit(crc % 16)>>

calculateCRC16WholeString(jsonString) ==
  LET utf8 == utf8Of(jsonString)
  IN toHex(crcOver(65535, utf8, 0, Len(utf8)))

calculateCRC16(jsonString) ==
  LET utf8 == utf8Of(jsonString)
      dataLen == lastIndexOf(jsonString, CrcKey) + Len(CrcKey) + (Len(utf8) - Len(jsonString))
  IN toHex(crcOver(65535, utf8, 0, dataLen))

\* The end of sendKseniaCommand: the message is serialized with the placeholder,
\* CRC_16 is replaced by the checksum and the message is serialized again.
jsonMessage(text) == stringify(text, calculateCRC16(stringify(text, Placeholder)))

\* The characters of the texts: A, the quotation mark, e-acute (two bytes), the
\* euro sign (three bytes) and a surrogate pair (four bytes).
Characters == {<<65>>, <<Quote>>, <<233>>, <<8364>>, <<55357, 56832>>}
Texts ==
  LET upTo[n \in 0..MaxChars] ==
        IF n = 0 THEN {<<>>}
        ELSE upTo[n - 1] \cup {t \o c : t \in upTo[n - 1], c \in Characters}
  IN upTo[MaxChars]

\* ------------------------------------------------- frames the panel sends
ZoneData(id, des, status) == [ID |-> id, DES |-> des, STATUS |-> status]
OutputData(id, des, cat, type) == [ID |-> id, DES |-> des, CAT |-> cat, TYPE |-> type]
ScenarioData(id, des, cat) == [ID |-> id, DES |-> des, CAT |-> cat]
BusHaData(id, des) == [ID |-> id, DES |-> des]
OutputStatus(id, sta, pos, tpos) ==
  [ID |-> id, STA |-> sta, POS |-> pos, TPOS |-> tpos,
   TEMP_CURRENT |-> Undefined, TEMP_TARGET |-> Undefined, MODE |-> Undefined]
SensorStatus(id, domus) == [ID |-> id, DOMUS |-> domus]
Domus(tem, hum, lht) == [TEM |-> tem, HUM |-> hum, LHT |-> lht]
ZoneStatus(id, sta, byp, a, fm) == [ID |-> id, STA |-> sta, BYP |-> byp, A |-> a, FM |-> fm]
SystemStatus(id, in, out) == [ID |-> id, TEMP |-> [IN |-> in, OUT |-> out]]

ZoneLists ==
  {<<ZoneData("1", "Door", "1")>>, <<ZoneData("1", "Door", "2")>>,
   <<ZoneData("1", "Door", "1"), NullRecord>>}
OutputLists ==
  {<<OutputData("1", "Lamp", "LIGHT", Undefined)>>,
   <<OutputData("1", "", Undefined, "gate")>>,
   <<OutputData("2", "Clima", "THERM", Undefined)>>}
ScenarioLists ==
  {<<ScenarioData("1", "Night", Undefined)>>, <<ScenarioData("2", "Away", "ARM")>>,
   <<ScenarioData("2", "Home", "DISARM")>>, <<ScenarioData("1", "", "arm")>>}
BusHaLists == {<<BusHaData("1", "Living")>>}

LightOn == OutputStatus("1", "ON", Undefined, Undefined)
CoverUp == OutputStatus("1", "UP", "30", "80")
SensorFull == SensorStatus("1", Domus("21.5", "45", "300"))
SensorBare == SensorStatus("1", Domus(Undefined, Undefined, Undefined))
SensorNoDomus == SensorStatus("1", NoDomus)
ZoneAlarm == ZoneStatus("1", "A", "NO", "Y", "F")
ZoneRest == ZoneStatus("1", "R", "YES", Undefined, "T")
\* Records of a panel identifier no discovery record carries.
OtherOutput == OutputStatus("3", "ON", Undefined, Undefined)
OtherSensor == SensorStatus("3", Domus("21.5", "45", "300"))
OtherZone == ZoneStatus("3", "A", "NO", "Y", "F")

DiscoveryFrames ==
  {Json(Message("READ_RES", "ZONES", [EmptyPayload EXCEPT !.ZONES = l])) : l \in ZoneLists}
  \cup {Json(Message("READ_RES", "MULTI_TYPES", [EmptyPayload EXCEPT !.OUTPUTS = l])) :
          l \in OutputLists}
  \cup {Json(Message("READ_RES", "MULTI_TYPES", [EmptyPayload EXCEPT !.SCENARIOS = l])) :
          l \in ScenarioLists}
  \cup {Json(Message("READ_RES", "MULTI_TYPES", [EmptyPayload EXCEPT !.BUS_HAS = l])) :
          l \in BusHaLists}
  \cup {Json(Message("READ_RES", "MULTI_TYPES",
                     [EmptyPayload EXCEPT
                        !.OUTPUTS = <<OutputData("1", "Lamp", "LIGHT", Undefined),
                                      OutputData("1", "", Undefined, "gate")>>,
                        !.SCENARIOS = <<ScenarioData("2", "Away", "ARM"),
                                        ScenarioData("1", "Night", Undefined)>>,
                        !.BUS_HAS = <<BusHaData("1", "Living")>>]))}

Outputs(l) == [NoStatus EXCEPT !.STATUS_OUTPUTS = l]
Sensors(l) == [NoStatus EXCEPT !.STATUS_BUS_HA_SENSORS = l]
Zones(l) == [NoStatus EXCEPT !.STATUS_ZONES = l]
System(l) == [NoStatus EXCEPT !.STATUS_SYSTEM = l]

\* The payload that holds the arrays of a status object itself.
Flat(o) ==
  [EmptyPayload EXCEPT !.STATUS_OUTPUTS = o.STATUS_OUTPUTS,
                       !.STATUS_BUS_HA_SENSORS = o.STATUS_BUS_HA_SENSORS,
                       !.STATUS_ZONES = o.STATUS_ZONES,
                       !.STATUS_SYSTEM = o.STATUS_SYSTEM]
\* The payload that holds status objects under keys of their own.
Nested(os) == [EmptyPayload EXCEPT !.entries = os]

\* The answers to the READs of the sweep and to the REALTIME registration, and
\* the notifications that follow.
StatusFrames ==
  {Json(Message("READ_RES", "STATUS_OUTPUTS", Flat(Outputs(l)))) :
     l \in {<<LightOn>>, <<CoverUp>>, <<OtherOutput>>}}
  \cup {Json(Message("READ_RES", "STATUS_BUS_HA_SENSORS", Flat(Sensors(l)))) :
          l \in {<<SensorFull>>, <<SensorNoDomus>>, <<OtherSensor>>}}
  \cup {Json(Message("READ_RES", "STATUS_ZONES", Flat(Zones(<<ZoneAlarm>>)))),
        Json(Message("READ_RES", "STATUS_SYSTEM",
                     Flat(System(<<SystemStatus("1", "+21.5", "+19")>>))))}
  \cup {Json(Message("REALTIME_RES", "REGISTER_ACK", Flat(o))) :
          o \in {Outputs(<<LightOn>>), Sensors(<<SensorBare>>), Zones(<<ZoneAlarm>>),
                 Zones(<<OtherZone>>),
                 [NoStatus EXCEPT !.STATUS_OUTPUTS = <<CoverUp, OtherOutput>>,
                                  !.STATUS_ZONES = <<ZoneRest>>]}}
  \cup {Json(Message("REALTIME", "CHANGES", Nested(os))) :
          os \in {<<Outputs(<<LightOn>>)>>, <<Zones(<<ZoneRest>>)>>,
                  <<Outputs(<<OtherOutput>>), Sensors(<<OtherSensor>>)>>}}
  \cup {Json(Message("REALTIME", "OTHER", Nested(<<Outputs(<<LightOn>>)>>)))}
  \cup {Json(Message("STATUS_UPDATE", "CHANGES", Nested(os))) :
          os \in {<<Outputs(<<CoverUp>>)>>, <<Sensors(<<SensorFull>>)>>,
                  <<Zones(<<ZoneAlarm>>), NullRecord>>, <<Zones(<<OtherZone>>)>>}}

\* Frames that cannot be decoded, or whose handler throws before it has changed
\* anything.
MalformedFrames ==
  {Data("garbage", NullRecord), Data("null", NullRecord),
   Json(Message("READ_RES", "MULTI_TYPES", NoPayload)),
   Json(Message("REALTIME_RES", "REGISTER_ACK", NoPayload)),
   Json(Message("STATUS_UPDATE", "CHANGES", NoPayload))}

DeviceFrames == DiscoveryFrames \cup StatusFrames

\* Discovery of two zones, two outputs, two scenarios and two sensors, one of
\* each excluded by the configuration, and status records of them.
PlatformFrames ==
  {Json(Message("READ_RES", "ZONES",
                [EmptyPayload EXCEPT !.ZONES = <<ZoneData("1", "Door", "1"), ZoneData("2", "Door", "2")>>])),
   Json(Message("READ_RES", "MULTI_TYPES",
                [EmptyPayload EXCEPT !.OUTPUTS = <<OutputData("1", "Lamp", "LIGHT", Undefined),
                                                   OutputData("2", "", Undefined, "gate")>>])),
   Json(Message("READ_RES", "MULTI_TYPES",
                [EmptyPayload EXCEPT !.SCENARIOS = <<ScenarioData("1", "Night", Undefined),
                                                     ScenarioData("3", "Night", Undefined)>>])),
   Json(Message("READ_RES", "MULTI_TYPES",
                [EmptyPayload EXCEPT !.BUS_HAS = <<BusHaData("1", "Living"), BusHaData("2", "Living")>>])),
   Json(Message("STATUS_UPDATE", "CHANGES",
                Nested(<<Zones(<<ZoneAlarm, ZoneStatus("2", "A", "NO", "Y", "F")>>)>>))),
   Json(Message("STATUS_UPDATE", "CHANGES",
                Nested(<<Outputs(<<LightOn, OutputStatus("2", "UP", "30", "80")>>)>>))),
   Json(Message("STATUS_UPDATE", "CHANGES",
                Nested(<<Sensors(<<SensorFull, SensorStatus("2", Domus("21.5", "45", "300"))>>)>>)))}
\* The accessories Homebridge may restore from its cache before the platform connects.
CachedIds == {<<"zone", "1">>, <<"zone", "2">>}

\* Two zones, and every combination of the flags of one of them in a status record.
ZoneIds == {"1", "2"}
ZoneRecords ==
  {ZoneStatus(id, sta, byp, a, fm) :
     id \in ZoneIds, sta \in {"R", "A"}, byp \in {"NO", "YES"}, a \in {"N", "Y"}, fm \in {"F", "T"}}
ZoneFrames ==
  {Json(Message("READ_RES", "ZONES",
                [EmptyPayload EXCEPT !.ZONES = <<ZoneData("1", "Door", "1"), ZoneData("2", "Door", "2")>>]))}
  \cup {Json(Message("STATUS_UPDATE", "CHANGES", Nested(<<Zones(<<r>>)>>))) : r \in ZoneRecords}

\* The status records of one cover: the state keywords in both cases, an unknown
\* keyword, and positions that are absent, empty or a number.
CoverKeywords == {"UP", "open", "DOWN", "CLOSE", "STOP", "MOVING"}
CoverPositions == {Undefined, "", "30", "50", "80"}
CoverRecords ==
  {OutputStatus("1", sta, pos, tpos) :
     sta \in CoverKeywords, pos \in CoverPositions, tpos \in CoverPositions}
CoverFrames ==
  {Json(Message("READ_RES", "MULTI_TYPES",
                [EmptyPayload EXCEPT !.OUTPUTS = <<OutputData("1", "Blind", "ROLL", Undefined)>>]))}
  \cup {Json(Message("STATUS_UPDATE", "CHANGES", Nested(<<Outputs(<<r>>)>>))) : r \in CoverRecords}

\* ------------------------------------------------------------ the machine
Ready == ws # NoSock /\ sock[ws] = "open" /\ tokenOf[ws] # None
NoUrgent == \A s \in Sockets : sock[s] # "terminated"

NoDelay == [k |-> 0, nominal |-> 0, final |-> 0]

\* What a handler finds when it starts.
Found(op, s) ==
  [op |-> op, sock |-> s, ready |-> Ready, open |-> IsOpen(World),
   authed |-> (ws # NoSock /\ tokenOf[ws] # None),
   probe |-> (ws # NoSock /\ pingOpen[ws]),
   age |-> lastPongAge, result |-> "", data |-> NoData]

Settles(w) == \E s \in Sockets : promise[s] # "settled" /\ w.promise[s] = "settled"

\* The onConnected and onDisconnected calls of a handler, in order.
ConnectionCallbacks(log) ==
  SelectSeq(log, LAMBDA c : c \in {"onConnected", "onDisconnected"})

CommitClient(w, e) ==
  /\ ws' = w.ws
  /\ isConnected' = w.isConnected
  /\ idLogin' = w.idLogin
  /\ heartbeatTimer' = w.heartbeatTimer
  /\ heartbeatPending' = w.heartbeatPending
  /\ lastPongAge' = w.lastPongAge
  /\ reconnectTimer' = w.reconnectTimer
  /\ reconnectAttempts' = w.reconnectAttempts
  /\ sock' = w.sock
  /\ promise' = w.promise
  /\ timers' = w.timers
  /\ intervals' = w.intervals
  /\ delay' = w.delay
  /\ loginSent' = w.loginSent
  /\ tokenOf' = w.tokenOf
  /\ pingOpen' = w.pingOpen
  /\ wrote' = w.wrote
  /\ calls' = w.calls
  /\ devices' = w.devices
  /\ notified' = w.notified
  /\ logged' = w.logged
  /\ UNCHANGED <<body, sent>>
  /\ ev' = e
  /\ loginRejected' = (loginRejected \/ (e.op = "loginRes" /\ e.result # "OK"))
  /\ attemptsMade' =
       IF e.op = "reconnectTimer" THEN Min(attemptsMade + 1, MaxAttempts)
       ELSE IF Has(w.calls, "onConnected") THEN 0
       ELSE attemptsMade
  /\ forced' =
       IF Has(w.calls, "forceReconnect") THEN [n |-> Min(forced.n + 1, 2), attempts |-> 0]
       ELSE IF e.op = "reconnectTimer" /\ forced.n > 0
         THEN [forced EXCEPT !.attempts = Min(@ + 1, 2)]
       ELSE IF Settles(w) THEN [n |-> 0, attempts |-> 0]
       ELSE forced
  /\ lastCallback' =
       IF ConnectionCallbacks(w.calls) = <<>> THEN lastCallback
       ELSE ConnectionCallbacks(w.calls)[Len(ConnectionCallbacks(w.calls))]

\* -------------------------------------------------- DebugCaptureManager
CaptureMask == "***MASKED***"
\* parsed.PAYLOAD?.PIN: reading PAYLOAD of null throws, a message without PIN gives undefined.
PayloadPIN(parsed) ==
  IF parsed = NullRecord THEN [thrown |-> TRUE]
  ELSE IF "pin" \in DOMAIN parsed /\ parsed.pin # None THEN [thrown |-> FALSE, value |-> parsed.pin]
  ELSE [thrown |-> FALSE, value |-> Undefined]
\* JSON.parse(JSON.stringify(parsed)) with PAYLOAD.PIN replaced.
maskedParsed(parsed) == [parsed EXCEPT !.pin = CaptureMask]

\* captureRawMessage: parsed stays null when JSON.parse throws; the inner catch
\* keeps the text as it is.
captureRawMessage(c, direction, rawData) ==
  LET result == JSONparse(rawData)
      parsed == IF result = SyntaxError THEN NullRecord ELSE result
      pin == PayloadPIN(parsed)
      maskedData == IF result # SyntaxError /\ ~pin.thrown /\ pin.value # Undefined
                    THEN Json(maskedParsed(parsed))
                    ELSE rawData
  IN [c EXCEPT !.rawMessages =
        Append(@, [direction |-> direction, rawData |-> maskedData, parsed |-> parsed])]

\* startCapture with hookWebSocket: the listeners and send of the current socket
\* are wrapped once more, whatever wraps them already.
startCapture(c, socket) ==
  IF c.isCapturing THEN c
  ELSE [c EXCEPT !.isCapturing = TRUE, !.rawMessages = <<>>,
                 !.deviceSnapshots = <<"START">>,
                 !.hooks = IF socket = NoSock THEN @ ELSE [@ EXCEPT ![socket] = @ + 1],
                 !.snapshotIntervals = @ + 1,
                 !.captureTimer = TRUE]

\* generateComprehensiveDebugFile: rawMessages go to the file as they are stored.
generateComprehensiveDebugFile(c) == [c EXCEPT !.file = c.rawMessages]

stopCapture(c) ==
  IF ~c.isCapturing THEN c
  ELSE generateComprehensiveDebugFile(
         [c EXCEPT !.isCapturing = FALSE, !.captureTimer = FALSE,
                   !.deviceSnapshots = Append(@, "END")])

\* The setTimeout callback of startCapture: it clears the interval of its own capture.
captureTimerFires(c) == stopCapture([c EXCEPT !.snapshotIntervals = @ - 1])

\* One setInterval callback of startCapture.
snapshotInterval(c) ==
  IF c.isCapturing THEN [c EXCEPT !.deviceSnapshots = Append(@, "INTERVAL")] ELSE c

\* The text of the 'message' event of a handler, if it was one: the LOGIN_RES
\* the panel answered, or the frame delivered.
InboundText(w, e) ==
  CASE e.op = "message" -> <<e.data>>
    [] e.op = "loginRes" ->
         <<Json(Message("LOGIN_RES", "UNKNOWN",
                        [EmptyPayload EXCEPT !.RESULT = e.result,
                                             !.ID_LOGIN = IF e.result = "OK" THEN w.tokenOf[e.sock]
                                                          ELSE "absent"]))>>
    [] OTHER -> <<>>

\* The strings the handler passed to ws.send of socket s: ws.ping() is not a send.
SentOn(w, s) ==
  LET frames == SelectSeq(w.wrote, LAMBDA f : f.sock = s /\ f.cmd # "ping")
  IN [i \in 1..Len(frames) |-> Json(frames[i])]

RECURSIVE captureAll(_, _, _)
captureAll(c, direction, texts) ==
  IF texts = <<>> THEN c
  ELSE captureAll(captureRawMessage(c, direction, Head(texts)), direction, Tail(texts))

\* A text passes the wrappers of a socket from the outermost to the innermost:
\* each of them records it and hands it to the one it wrapped.
RECURSIVE Repeated(_, _)
Repeated(texts, n) ==
  IF texts = <<>> THEN <<>>
  ELSE [i \in 1..n |-> Head(texts)] \o Repeated(Tail(texts), n)

RECURSIVE captureSent(_, _, _)
captureSent(c, w, s) ==
  IF s = 0 THEN c
  ELSE captureSent(captureAll(c, "out", Repeated(SentOn(w, s), c.hooks[s])), w, s - 1)

\* The wrappers hookWebSocket installed: the inbound text is recorded before the
\* original listeners run, each outgoing text before the original send.  A
\* socket connect() creates has no wrapper.
hookWebSocket(c, w, e) ==
  LET c1 == IF ~c.isCapturing THEN c
            ELSE captureSent(captureAll(c, "in",
                                        IF e.sock = NoSock THEN <<>>
                                        ELSE Repeated(InboundText(w, e), c.hooks[e.sock])),
                             w, MaxSockets)
  IN [c1 EXCEPT !.hooks = [s \in Sockets |->
                             IF w.sock[s] = "connecting" /\ sock[s] # "connecting" THEN 0 ELSE @[s]]]

\* A handler of the client ran: the capture records its traffic.
CommitTraffic(w, e) ==
  /\ CommitClient(w, e)
  /\ capture' = hookWebSocket(capture, w, e)
  /\ Len(capture'.rawMessages) <= MaxCaptured

\* A handler of the client ran and no accessory is involved.
Commit(w, e) ==
  CommitTraffic(w, e) /\ UNCHANGED <<cover, handlers, accessories, registered, pushed>>

\* ------------------------------------------- platform and ZoneAccessory
\* config.excludeZones, excludeOutputs, excludeSensors, excludeScenarios; no
\* custom name is configured.
ExcludeZones == {"2"}
ExcludeOutputs == {"2"}
ExcludeSensors == {"2"}
ExcludeScenarios == {"3"}
\* device.id.replace(/^(light_|cover_|...)/, '') is the second part of the identifier.
shouldExcludeDeviceNever(device) == FALSE

shouldExcludeDevice(device) ==
  LET id == device.id[2]
  IN \/ device.type = "zone" /\ id \in ExcludeZones
     \/ device.type \in {"light", "cover", "thermostat"} /\ id \in ExcludeOutputs
     \/ device.type = "sensor" /\ id \in ExcludeSensors
     \/ device.type = "scenario" /\ id \in ExcludeScenarios

\* A handler keeps in this.device the reference addAccessory stored in
\* accessory.context.device: the object the client holds in this.devices under
\* that id. The client changes that object in place and passes the same object
\* to its callbacks, so when a callback runs the reference leads to the device
\* passed.
Ref(device) == device.id
Deref(ref, passed) == IF ref = passed.id THEN passed ELSE devices[ref]
Bit(b) == IF b THEN 1 ELSE 0

\* ZoneAccessory.updateCharacteristics, at the end of the constructor.
updateCharacteristics(p, device) ==
  Push(Push(Push(Push(p, "ContactSensorState", Bit(device.status.open)),
                 "StatusActive", device.status.armed),
            "StatusFault", Bit(device.status.fault)),
       "StatusTampered", Bit(device.status.bypassed))

\* createAccessoryHandler: the handler of the uuid is replaced by a new one; of
\* the constructors the one of ZoneAccessory is followed.
createAccessoryHandler(p, device) ==
  LET p1 == [p EXCEPT !.handlers =
               (device.id :> [type |-> device.type, device |-> Ref(device)]) @@ @]
  IN IF device.type = "zone" THEN updateCharacteristics(p1, device) ELSE p1

\* The registerPlatformAccessories calls for a device so far, counted up to RegistrationCap.
Registrations(reg, id) == IF id \in DOMAIN reg THEN reg[id] ELSE 0

addAccessoryAnew(p, device) ==
  LET p1 == createAccessoryHandler(p, device)
  IN [p1 EXCEPT !.registered =
                  (device.id :> Min(Registrations(@, device.id) + 1, RegistrationCap)) @@ @,
                !.accessories = @ \cup {device.id}]

\* addAccessory: the accessory of the uuid is reused when the platform holds one,
\* else a new one is created, given its handler, registered and kept.
addAccessory(p, device) ==
  IF device.id \in p.accessories THEN createAccessoryHandler(p, device)
  ELSE LET p1 == createAccessoryHandler(p, device)
       IN [p1 EXCEPT !.registered =
                       (device.id :> Min(Registrations(@, device.id) + 1, RegistrationCap)) @@ @,
                     !.accessories = @ \cup {device.id}]

handleDeviceDiscovered(p, device) ==
  IF shouldExcludeDevice(device) THEN p ELSE addAccessory(p, device)

\* ZoneAccessory.updateStatus: a characteristic is pushed when the flag of the
\* old device differs from the flag of the new one.
updateStatus(p, newDevice) ==
  LET oldDevice == Deref(p.handlers[newDevice.id].device, newDevice)
      p0 == [p EXCEPT !.handlers[newDevice.id].device = Ref(newDevice)]
      p1 == IF oldDevice.status.open # newDevice.status.open
            THEN Push(p0, "ContactSensorState", Bit(newDevice.status.open)) ELSE p0
      p2 == IF oldDevice.status.armed # newDevice.status.armed
            THEN Push(p1, "StatusActive", newDevice.status.armed) ELSE p1
      p3 == IF oldDevice.status.fault # newDevice.status.fault
            THEN Push(p2, "StatusFault", Bit(newDevice.status.fault)) ELSE p2
  IN IF oldDevice.status.bypassed # newDevice.status.bypassed
     THEN Push(p3, "StatusTampered", Bit(newDevice.status.bypassed)) ELSE p3

\* updateAccessory: of the updateStatus methods the one of ZoneAccessory is followed.
updateAccessory(p, device) ==
  IF device.id \in p.accessories /\ device.id \in DOMAIN p.handlers /\ device.type = "zone"
  THEN updateStatus(p, device) ELSE p

handleDeviceStatusUpdate(p, device) == updateAccessory(p, device)

\* The callbacks of the platform, run in the order the handler of the client made them.
RECURSIVE callbacks(_, _)
callbacks(p, calls_) ==
  IF calls_ = <<>> THEN p
  ELSE LET n == Head(calls_)
       IN callbacks(IF n.cb = "onDeviceDiscovered" THEN handleDeviceDiscovered(p, n.device)
                    ELSE handleDeviceStatusUpdate(p, n.device),
                    Tail(calls_))

\* A handler of the client ran with the platform listening.
CommitPlatform(w, e) ==
  /\ CommitTraffic(w, e)
  /\ LET p == callbacks([handlers |-> handlers, accessories |-> accessories,
                          registered |-> registered, pushed |-> <<>>], w.notified)
     IN /\ handlers' = p.handlers
        /\ accessories' = p.accessories
        /\ registered' = p.registered
        /\ pushed' = p.pushed
  /\ UNCHANGED cover

Constructed ==
  /\ ws = NoSock
  /\ isConnected = FALSE
  /\ idLogin = None
  /\ heartbeatTimer = "undef"
  /\ heartbeatPending = FALSE
  /\ lastPongAge = 0
  /\ reconnectTimer = "undef"
  /\ reconnectAttempts = 0
  /\ sock = [s \in Sockets |-> "free"]
  /\ promise = [s \in Sockets |-> "settled"]
  /\ timers = 0
  /\ intervals = 0
  /\ delay = NoDelay
  /\ loginSent = [s \in Sockets |-> FALSE]
  /\ tokenOf = [s \in Sockets |-> None]
  /\ pingOpen = [s \in Sockets |-> FALSE]
  /\ started = FALSE
  /\ disconnects = 0
  /\ attemptsMade = 0
  /\ loginRejected = FALSE
  /\ forced = [n |-> 0, attempts |-> 0]
  /\ lastCallback = "none"
  /\ ev = [op |-> "init", sock |-> NoSock, ready |-> FALSE, open |-> FALSE,
           authed |-> FALSE, probe |-> FALSE, age |-> 0, result |-> "", data |-> NoData]
  /\ devices = <<>>
  /\ notified = <<>>
  /\ logged = <<>>
  /\ wrote = <<>>
  /\ calls = <<>>
  /\ cover = NewCover
  /\ capture = NewCapture
  /\ handlers = <<>>
  /\ accessories = {}
  /\ registered = <<>>
  /\ pushed = <<>>

Init == Constructed /\ body = <<>> /\ sent = <<>>

\* The platform calls connect() once, from initializeLares4().
PlatformConnect ==
  /\ ~started
  /\ started' = TRUE
  /\ UNCHANGED disconnects
  /\ Commit(connect(World, "platform"), Found("connect", NoSock))

\* The handshake of socket s completes: 'open'.
SocketOpen(s) ==
  /\ sock[s] = "connecting"
  /\ UNCHANGED <<started, disconnects>>
  /\ \E r \in Randoms :
       Commit(onOpen([World EXCEPT !.sock[s] = "open"], s, r), Found("open", s))

\* Socket s is gone: the handshake failed, the panel or the network closed it, or
\* the close the client asked for completed.  An unfinished handshake reports
\* 'error' (rejecting the connect() promise) together with 'close'.
CloseEvent(s) ==
  /\ sock[s] \in {"connecting", "open", "closing", "terminated"}
  /\ UNCHANGED <<started, disconnects>>
  /\ \E r \in Randoms :
       \* the catch of a rejected reconnection schedules again and replaces the
       \* delay drawn by the close handler, so one draw covers both calls
       LET w1 == onClose([World EXCEPT !.sock[s] = "closed"], r)
           w2 == IF promise[s] # "settled" THEN rejectConnect(w1, s, r) ELSE w1
       IN Commit(w2, Found("close", s))

\* The panel answers the LOGIN written on socket s.
LoginRes(s) ==
  /\ sock[s] \in {"open", "closing"}
  /\ loginSent[s]
  /\ UNCHANGED <<started, disconnects>>
  /\ \E result \in LoginResults, field \in IdLoginFields :
       /\ result = "FAIL" => field = "absent"
       /\ LET w0 == [World EXCEPT !.loginSent[s] = FALSE,
                                  !.tokenOf[s] = IF result = "OK" THEN IdLoginOf(field) ELSE @]
          IN Commit(handleLoginResponse(w0, result, field),
                    [Found("loginRes", s) EXCEPT !.result = result])

\* The panel answers a ping written on socket s.
Pong(s) ==
  /\ sock[s] \in {"open", "closing"}
  /\ pingOpen[s]
  /\ UNCHANGED <<started, disconnects>>
  /\ Commit(onPong([World EXCEPT !.pingOpen[s] = FALSE]), Found("pong", s))

\* One heartbeat interval has passed.
HeartbeatTick ==
  /\ intervals > 0
  /\ NoUrgent
  /\ UNCHANGED <<started, disconnects>>
  /\ \E r \in Randoms :
       LET age == Min(lastPongAge + 1, AgeCap)
       IN Commit(heartbeatTick([World EXCEPT !.lastPongAge = age], r),
                 [Found("tick", ws) EXCEPT !.age = age])

\* The setTimeout callback of scheduleReconnect.  reconnectAttempts++ stops at
\* MaxAttempts: from 4 on the delay is MaxReconnectDelay whatever the count.
ReconnectTimerFires ==
  /\ timers > 0
  /\ NoUrgent
  /\ \E s \in Sockets : Reusable(World, s)
  /\ UNCHANGED <<started, disconnects>>
  /\ LET w0 == [World EXCEPT !.timers = @ - 1, !.delay = NoDelay,
                             !.reconnectTimer = IF timers = 1 /\ @ = "pending" THEN "fired" ELSE @,
                             !.reconnectAttempts = Min(@ + 1, MaxAttempts)]
     IN Commit(connect(w0, "timer"), Found("reconnectTimer", ws))

\* The owner tears the client down.
Disconnect ==
  /\ started
  /\ disconnects < MaxDisconnects
  /\ disconnects' = disconnects + 1
  /\ UNCHANGED started
  /\ Commit(disconnect(World), Found("disconnect", ws))

\* An accessory calls one of the command operations.
Command(op) ==
  /\ UNCHANGED <<started, disconnects>>
  /\ \E a \in CommandArgs(op) :
       LET r == Invoke(World, op, a)
       IN Commit(r.w, [Found(op, ws) EXCEPT !.result = IF r.ok THEN "sent" ELSE "rejected"])

\* Socket s delivers a frame that cannot be decoded or handled.
Malformed(s) ==
  /\ sock[s] \in {"open", "closing"}
  /\ UNCHANGED <<started, disconnects>>
  /\ \E data \in MalformedFrames :
       Commit(handleMessage(World, data),
              [Found("message", s) EXCEPT !.data = data, !.result = "dropped"])

\* Socket s delivers one of the frames.
InboundOf(s, frames) ==
  /\ sock[s] \in {"open", "closing"}
  /\ UNCHANGED <<started, disconnects>>
  /\ \E data \in frames :
       \E w \in {handleMessage(World, data)} :
          Commit(w, [Found("message", s) EXCEPT
                       !.data = data,
                       !.result = IF Has(w.calls, "log.error") THEN "dropped" ELSE "handled"])

\* Socket s delivers a discovery response or a status frame.
Inbound(s) == InboundOf(s, DeviceFrames)
\* Socket s delivers the discovery record or a status record of the cover.
CoverInbound(s) == InboundOf(s, CoverFrames)

Next ==
  \/ PlatformConnect
  \/ \E s \in Sockets : SocketOpen(s)
  \/ \E s \in Sockets : CloseEvent(s)
  \/ \E s \in Sockets : LoginRes(s)
  \/ \E s \in Sockets : Pong(s)
  \/ HeartbeatTick
  \/ ReconnectTimerFires
  \/ Disconnect
  \/ \E op \in CommandOps : Command(op)
  \/ \E s \in Sockets : Malformed(s)

Spec == Init /\ [][Next]_vars

\* The connection on its own: the commands write frames and change nothing else.
LifecycleNext ==
  \/ PlatformConnect
  \/ \E s \in Sockets : SocketOpen(s)
  \/ \E s \in Sockets : CloseEvent(s)
  \/ \E s \in Sockets : LoginRes(s)
  \/ \E s \in Sockets : Pong(s)
  \/ HeartbeatTick
  \/ ReconnectTimerFires
  \/ Disconnect

\* The registry over the sessions of the client: the socket opens, delivers
\* discovery responses and status frames, is lost and is replaced.
RegistryNext ==
  \/ PlatformConnect
  \/ \E s \in Sockets : SocketOpen(s)
  \/ \E s \in Sockets : sock[s] = "open" /\ CloseEvent(s)
  \/ ReconnectTimerFires
  \/ \E s \in Sockets : Inbound(s)

RegistrySpec == Init /\ [][RegistryNext]_vars

\* Socket s delivers a frame about the zones and the platform reacts to the callbacks.
ZoneInbound(s) ==
  /\ sock[s] \in {"open", "closing"}
  /\ UNCHANGED <<started, disconnects>>
  /\ \E data \in ZoneFrames :
       \E w \in {handleMessage(World, data)} :
          CommitPlatform(w, [Found("message", s) EXCEPT
                               !.data = data,
                               !.result = IF Has(w.calls, "log.error") THEN "dropped" ELSE "handled"])

\* Homebridge restores an accessory from its cache: configureAccessory.
ConfigureAccessory(id) ==
  /\ ~started
  /\ id \notin accessories
  /\ accessories' = accessories \cup {id}
  /\ UNCHANGED <<client, cover, capture, handlers, registered, pushed>>

\* Socket s delivers a frame about devices and the platform reacts to the callbacks.
PlatformInbound(s) ==
  /\ sock[s] \in {"open", "closing"}
  /\ UNCHANGED <<started, disconnects>>
  /\ \E data \in PlatformFrames :
       \E w \in {handleMessage(World, data)} :
          CommitPlatform(w, [Found("message", s) EXCEPT
                               !.data = data,
                               !.result = IF Has(w.calls, "log.error") THEN "dropped" ELSE "handled"])

\* The platform over the sessions of the client: cached accessories are restored,
\* the socket opens, delivers discovery and status frames, is lost and is replaced.
PlatformNext ==
  \/ \E id \in CachedIds : ConfigureAccessory(id)
  \/ PlatformConnect
  \/ \E s \in Sockets : SocketOpen(s)
  \/ \E s \in Sockets : sock[s] = "open" /\ CloseEvent(s)
  \/ ReconnectTimerFires
  \/ \E s \in Sockets : PlatformInbound(s)

PlatformSpec == Init /\ [][PlatformNext]_vars

\* One session in which the panel reports two zones and then their changes.
ZoneNext ==
  \/ PlatformConnect
  \/ \E s \in Sockets : SocketOpen(s)
  \/ \E s \in Sockets : ZoneInbound(s)

ZoneSpec == Init /\ [][ZoneNext]_vars

\* One session in which the panel reports a cover and then its movements.
CoverStatusNext ==
  \/ PlatformConnect
  \/ \E s \in Sockets : SocketOpen(s)
  \/ \E s \in Sockets : CoverInbound(s)

CoverStatusSpec == Init /\ [][CoverStatusNext]_vars

\* The accessory a after a step: its fields stay, its updateCharacteristic calls are the step's.
CommitCover(a) ==
  /\ cover' = [currentPosition |-> a.currentPosition, targetPosition |-> a.targetPosition,
               positionState |-> a.positionState, moveIntervals |-> a.moveIntervals]
  /\ pushed' = a.pushed
  /\ UNCHANGED <<handlers, accessories, registered>>

\* The accessory as a handler of it finds it: nothing pushed yet.
Accessory == [currentPosition |-> cover.currentPosition, targetPosition |-> cover.targetPosition,
              positionState |-> cover.positionState, moveIntervals |-> cover.moveIntervals,
              pushed |-> <<>>]

\* HomeKit sets the target position of the cover.
SetTargetPosition(value) ==
  /\ Len(cover.moveIntervals) < MaxMoveIntervals
  /\ UNCHANGED <<started, disconnects>>
  /\ LET r == IF value = cover.currentPosition THEN [ok |-> TRUE, w |-> World]
              ELSE moveCover(World, value)
     IN /\ CommitTraffic(r.w, [Found("setTargetPosition", ws) EXCEPT
                                !.result = IF r.ok THEN "sent" ELSE "rejected"])
        /\ CommitCover(setTargetPosition(Accessory, value, r.ok))

\* The interval i of a simulated movement fires.
MoveInterval(i) ==
  /\ i \in 1..Len(cover.moveIntervals)
  /\ UNCHANGED <<started, disconnects>>
  /\ CommitTraffic(World, Found("moveInterval", ws))
  /\ CommitCover(moveInterval(Accessory, i))

\* A session in which HomeKit moves the cover.
CoverSimNext ==
  \/ PlatformConnect
  \/ \E s \in Sockets : SocketOpen(s)
  \/ \E s \in Sockets : LoginRes(s)
  \/ \E value \in CoverTargets : SetTargetPosition(value)
  \/ \E i \in 1..MaxMoveIntervals : MoveInterval(i)

CoverSimSpec == Init /\ [][CoverSimNext]_vars

\* Somebody starts the debug capture on the client.
StartCapture ==
  /\ capture.isCapturing
       \/ /\ capture.snapshotIntervals < MaxCaptures
          /\ ws # NoSock => capture.hooks[ws] < MaxCaptures
  /\ capture' = startCapture(capture, ws)
  /\ UNCHANGED <<client, cover, handlers, accessories, registered, pushed>>

\* Somebody stops the capture.
StopCapture ==
  /\ capture' = stopCapture(capture)
  /\ UNCHANGED <<client, cover, handlers, accessories, registered, pushed>>

\* The duration of the capture has passed.
CaptureTimerFires ==
  /\ capture.captureTimer
  /\ capture' = captureTimerFires(capture)
  /\ UNCHANGED <<client, cover, handlers, accessories, registered, pushed>>

\* Ten seconds have passed for one of the snapshot intervals.
SnapshotInterval ==
  /\ capture.snapshotIntervals > 0
  /\ capture.isCapturing => Len(capture.deviceSnapshots) < MaxSnapshots - 1
  /\ capture' = snapshotInterval(capture)
  /\ UNCHANGED <<client, cover, handlers, accessories, registered, pushed>>

\* A session of the client with debug captures.
CaptureNext ==
  \/ PlatformConnect
  \/ \E s \in Sockets : SocketOpen(s)
  \/ \E s \in Sockets : LoginRes(s)
  \/ \E op \in CommandOps : Command(op)
  \/ \E s \in Sockets : Malformed(s)
  \/ StartCapture
  \/ StopCapture
  \/ CaptureTimerFires
  \/ SnapshotInterval

CaptureSpec == Init /\ [][CaptureNext]_vars

\* sendKseniaCommand serializes, checksums and sends one message.
SendChecksummed ==
  /\ sent = <<>>
  /\ sent' = jsonMessage(body)
  /\ UNCHANGED <<ws, isConnected, idLogin, heartbeatTimer, heartbeatPending, lastPongAge,
                 reconnectTimer, reconnectAttempts, sock, promise, timers, intervals, delay,
                 loginSent, tokenOf, pingOpen, started, disconnects, attemptsMade,
                 loginRejected, forced, lastCallback, body, devices, notified, logged, ev, wrote, calls,
                 cover, capture, handlers, accessories, registered, pushed>>

\* The checksum of one message, over the texts it may carry.
ChecksumInit == Constructed /\ body \in Texts /\ sent = <<>>
ChecksumSpec == ChecksumInit /\ [][SendChecksummed]_vars

\* A pending timeout fires, and a destroyed socket emits its 'close'.
FairSpec ==
  /\ Init /\ [][LifecycleNext]_vars
  /\ WF_vars(ReconnectTimerFires)
  /\ \A s \in Sockets : WF_vars(sock[s] = "terminated" /\ CloseEvent(s))

\* ------------------------------------------------------------- properties
LiveSockets == {s \in Sockets : Live(sock[s])}
IsCommand(op) == op \in CommandOps
UserCommands == {"CMD_USR", "WRITE"}

\* The sweep as the interface document lists it: command, payload type, TYPES / range.
ExpectedSweep ==
  << <<"READ", "ZONES", <<"ALL", "ALL">> >>,
     <<"READ", "MULTI_TYPES", <<"OUTPUTS", "BUS_HAS", "SCENARIOS">> >>,
     <<"READ", "STATUS_OUTPUTS", <<>> >>,
     <<"READ", "STATUS_BUS_HA_SENSORS", <<>> >>,
     <<"READ", "STATUS_SYSTEM", <<>> >>,
     <<"REALTIME", "REGISTER",
       <<"STATUS_ZONES", "STATUS_OUTPUTS", "STATUS_BUS_HA_SENSORS", "STATUS_SYSTEM",
         "SCENARIOS">> >> >>

LoginAccepted == ev.op = "loginRes" /\ ev.result = "OK" /\ ev.sock = ws /\ sock[ws] = "open"

\* C1: every LOGIN_RES with RESULT OK handled on an open socket, on the first
\* connection and on every reconnection, makes the client write exactly the six
\* discovery requests, each once, in the fixed order, with the token just assigned.
C1_DiscoverySweep ==
  LoginAccepted =>
    /\ Len(wrote) = Len(ExpectedSweep)
    /\ \A i \in 1..Len(ExpectedSweep) :
         /\ wrote[i].sock = ws
         /\ <<wrote[i].cmd, wrote[i].ptype, wrote[i].arg>> = ExpectedSweep[i]
         /\ wrote[i].idLogin = tokenOf[ws]

\* a sweep written on a socket that a reconnection created
C1_SweepAfterReconnect ==
  LoginAccepted /\ reconnectTimer = "fired" /\ Len(wrote) = Len(ExpectedSweep)

\* C2: every frame that carries a session token carries the token assigned by the
\* LOGIN_RES received on the socket the frame is written to.
C2_TokenOfThisSocket ==
  \A i \in 1..Len(wrote) :
    wrote[i].idLogin # None => wrote[i].idLogin = tokenOf[wrote[i].sock]

\* C3: a command invoked while the client is not authenticated on its current
\* socket, or while that socket is not open, is rejected and writes no frame, and
\* no later handler writes a command frame on its behalf.
C3_CommandNeedsSession ==
  /\ (IsCommand(ev.op) /\ (~ev.authed \/ ~ev.open)) =>
       (ev.result = "rejected" /\ wrote = <<>>)
  /\ ~IsCommand(ev.op) => \A i \in 1..Len(wrote) : wrote[i].cmd \notin UserCommands

\* C4: once the panel has rejected a login, no further LOGIN frame is written
\* (the owner never calls connect() a second time here).
C4_NoLoginAfterRejection ==
  loginRejected => \A i \in 1..Len(wrote) : wrote[i].cmd # "LOGIN"

Lost == started /\ disconnects = 0 /\ ws # NoSock /\ sock[ws] \in {"terminated", "closed"}
AttemptStarted == disconnects > 0 \/ (ws # NoSock /\ sock[ws] = "connecting")

\* C5: whenever the current socket is gone without a teardown, a new connection
\* attempt is eventually started; a failed attempt is such a loss again, so the
\* retries never end.
C5_AlwaysRetries == Lost ~> AttemptStarted

\* a third consecutive reconnection attempt under way
C5_ThirdAttempt ==
  disconnects = 0 /\ attemptsMade = 3 /\ ws # NoSock /\ sock[ws] = "connecting"

\* C6: after disconnect() the socket is not connecting or open, no heartbeat or
\* reconnect timer is pending, and no handler starts a connection attempt.
C6_TeardownIsFinal ==
  disconnects > 0 =>
    /\ ws # NoSock => ~Live(sock[ws])
    /\ timers = 0
    /\ intervals = 0
    /\ ~Has(calls, "connect")

\* C7: at every moment at most one socket of the client is connecting or open.
C7_OneLiveSocket == Cardinality(LiveSockets) <= 1

\* a socket opened by the attempt that followed a forced reconnection
C7_LiveAfterForce ==
  forced.n = 1 /\ forced.attempts = 1 /\ Cardinality(LiveSockets) = 1

TimeoutDetected ==
  ev.op = "tick" /\ ev.ready /\ ev.probe /\ ev.age > HeartbeatTimeoutFactor

\* C8: at a heartbeat tick that finds the connection READY, a probe unanswered and
\* the last pong more than twice the interval old, the client destroys the socket
\* (no closing handshake) and schedules a reconnection.
C8_TimeoutForcesReconnect ==
  TimeoutDetected =>
    /\ sock[ev.sock] = "terminated"
    /\ ~isConnected
    /\ Has(calls, "scheduleReconnect")
    /\ timers = 1

C8_TimeoutSeen == TimeoutDetected /\ sock[ev.sock] = "terminated"

\* C9: one timeout detection forces the reconnection once: the detection stops
\* the heartbeat timer, leaves exactly one reconnect timeout pending, and one
\* connection attempt, not two, is started for it.
C9_ForcedOnce ==
  /\ forced.n <= 1
  /\ forced.attempts <= 1
  /\ timers <= 1
  /\ Has(calls, "forceReconnect") =>
       (Count(calls, "forceReconnect") = 1 /\ intervals = 0 /\ heartbeatTimer = "undef")
  /\ (forced.n = 1 /\ forced.attempts = 0 /\ disconnects = 0) => timers = 1

C9_OneAttemptAfterForce == forced.n = 1 /\ forced.attempts = 1 /\ timers = 0

NominalDelays == <<5000, 10000, 20000, 40000, 60000, 60000>>

\* C10: the timeout pending before attempt k+1, after k consecutive attempts, has
\* the nominal delay 5000, 10000, 20000, 40000, 60000, 60000 ms (k = 0..5), that is
\* min(5000 * 2^k, 60000), and the delay actually set is within 10% of it.
C10_BackoffDelays ==
  timers > 0 =>
    /\ attemptsMade < Len(NominalDelays) => delay.nominal = NominalDelays[attemptsMade + 1]
    /\ delay.nominal = Min(5000 * 2 ^ attemptsMade, 60000)
    /\ 10 * (delay.final - delay.nominal) <= delay.nominal
    /\ 10 * (delay.nominal - delay.final) <= delay.nominal

C10_CappedAndJittered ==
  timers > 0 /\ attemptsMade = 5 /\ delay.nominal = 60000 /\ delay.final < delay.nominal

Ids(devs) == DOMAIN devs
IsMessage(e) == e.op = "message" /\ e.data.text = "json"
IsDiscovery(e) ==
  IsMessage(e) /\ e.data.msg.CMD = "READ_RES" /\ e.data.msg.PAYLOAD_TYPE \in {"ZONES", "MULTI_TYPES"}
Range(seq) == {seq[i] : i \in 1..Len(seq)}
\* The identifiers the callbacks of kind cb were called with, in order.
Called(cb, log) ==
  LET sel == SelectSeq(log, LAMBDA n : n.cb = cb)
  IN [i \in 1..Len(sel) |-> sel[i].device.id]

\* C12: the identifiers of the registry only grow, and only while a discovery
\* response (READ_RES ZONES or MULTI_TYPES) is handled: a status frame, a close
\* and a reconnection leave the set of identifiers as it is.
C12_RegistryOnlyGrows ==
  [][/\ Ids(devices) \subseteq Ids(devices')
     /\ Ids(devices') # Ids(devices) => IsDiscovery(ev')]_vars

C12_RegistrySurvivesReconnect ==
  /\ ev.op = "open" /\ reconnectTimer = "fired"
  /\ {<<"light", "1">>, <<"zone", "1">>} \subseteq Ids(devices)

\* The status objects a message carries: its own arrays and its nested entries.
StatusObjectsOf(msg) ==
  IF msg.PAYLOAD = NoPayload THEN {}
  ELSE {[k \in DOMAIN NoStatus |-> msg.PAYLOAD[k]]}
       \cup (Range(msg.PAYLOAD.entries) \ {NullRecord})
RecordsOf(msg, key) ==
  UNION {Range(o[key]) \ {NullRecord} : o \in StatusObjectsOf(msg)}
\* The identifiers a status record is looked up under.
DerivedIds(msg) ==
  {<<p, r.ID>> : p \in {"light", "cover", "thermostat"}, r \in RecordsOf(msg, "STATUS_OUTPUTS")}
  \cup {<<p, r.ID>> : p \in {"sensor_temp", "sensor_hum", "sensor_light"},
                     r \in RecordsOf(msg, "STATUS_BUS_HA_SENSORS")}
  \cup {<<"zone", r.ID>> : r \in RecordsOf(msg, "STATUS_ZONES")}
\* A frame of output, sensor or zone status records none of which is known.
UnknownOnly(e, devs) ==
  /\ IsMessage(e) /\ ~IsDiscovery(e)
  /\ DerivedIds(e.data.msg) # {}
  /\ DerivedIds(e.data.msg) \cap Ids(devs) = {}
  /\ RecordsOf(e.data.msg, "STATUS_SYSTEM") = {}

\* C13: a status record (output, sensor or zone) whose derived identifier is not
\* in the registry creates no device, changes no device, invokes no callback and
\* raises no error, also when nothing has been discovered yet.
C13_UnknownStatusIsNoOp ==
  [][UnknownOnly(ev', devices) =>
       /\ devices' = devices
       /\ notified' = <<>>
       /\ ev'.result = "handled" /\ ~Has(calls', "log.error")]_vars

C13_UnknownAmongKnown ==
  /\ UnknownOnly(ev, devices)
  /\ ev.data.msg.CMD = "STATUS_UPDATE"
  /\ {<<"zone", "1">>, <<"light", "1">>} \subseteq Ids(devices)

\* C14: on-device-discovered is called once per device identifier, however often
\* its discovery record arrives: a device that is in the registry (and so has
\* been reported) is not reported again, and no frame reports a device twice.
C14_DiscoveredOnce ==
  [][LET ids == Called("onDeviceDiscovered", notified')
     IN /\ Range(ids) \cap Ids(devices) = {}
        /\ Cardinality(Range(ids)) = Len(ids)]_vars

\* The entries of the registry that hold a device of identifier id.
EntriesOf(devs, id) == {k \in DOMAIN devs : devs[k].id = id}

\* C15: a discovery frame applied twice in a row leaves exactly one registry
\* entry for each identifier it reports, and the registry after the second
\* application is the registry after the first.
C15_DiscoveryIdempotent ==
  [][(IsDiscovery(ev) /\ ev.result = "handled" /\ ev'.op = "message" /\ ev'.data = ev.data) =>
       /\ devices' = devices
       /\ \A id \in Range(Called("onDeviceDiscovered", notified')) :
            Cardinality(EntriesOf(devices', id)) = 1]_vars

C15_AppliedDiscovery ==
  /\ IsDiscovery(ev) /\ ev.result = "handled"
  /\ Len(ev.data.msg.PAYLOAD.OUTPUTS) = 2
  /\ Len(Called("onDeviceDiscovered", notified)) = 6
  /\ \A id \in Range(Called("onDeviceDiscovered", notified)) :
       Cardinality(EntriesOf(devices, id)) = 1

Concat(seqs) ==
  LET upTo[i \in 0..Len(seqs)] == IF i = 0 THEN <<>> ELSE upTo[i - 1] \o seqs[i]
  IN upTo[Len(seqs)]
Present(ids, devs) == SelectSeq(ids, LAMBDA id : id \in DOMAIN devs)
\* The status objects the handlers pass to the update functions, in order.
RoutedObjects(msg) ==
  LET own == [k \in DOMAIN NoStatus |-> msg.PAYLOAD[k]]
  IN CASE msg.CMD = "READ_RES" /\ msg.PAYLOAD_TYPE = "STATUS_OUTPUTS" ->
            <<Outputs(own.STATUS_OUTPUTS)>>
       [] msg.CMD = "READ_RES" /\ msg.PAYLOAD_TYPE = "STATUS_BUS_HA_SENSORS" ->
            <<Sensors(own.STATUS_BUS_HA_SENSORS)>>
       [] msg.CMD = "REALTIME_RES" -> <<own>>
       [] msg.CMD = "STATUS_UPDATE" \/ (msg.CMD = "REALTIME" /\ msg.PAYLOAD_TYPE = "CHANGES") ->
            SelectSeq(msg.PAYLOAD.entries, LAMBDA o : o # NullRecord)
       [] OTHER -> <<>>
\* The lights, covers, sensors and zones of the registry that the records of a
\* status object match, record by record; bare says whether a sensor record
\* without DOMUS counts.
MatchedBy(o, devs, bare) ==
  Concat([i \in 1..Len(o.STATUS_OUTPUTS) |->
            Present(<<<<"light", o.STATUS_OUTPUTS[i].ID>>, <<"cover", o.STATUS_OUTPUTS[i].ID>>>>,
                    devs)])
  \o Concat([i \in 1..Len(o.STATUS_BUS_HA_SENSORS) |->
               IF ~bare /\ o.STATUS_BUS_HA_SENSORS[i].DOMUS = NoDomus THEN <<>>
               ELSE Present(<<<<"sensor_temp", o.STATUS_BUS_HA_SENSORS[i].ID>>,
                              <<"sensor_hum", o.STATUS_BUS_HA_SENSORS[i].ID>>,
                              <<"sensor_light", o.STATUS_BUS_HA_SENSORS[i].ID>>>>, devs)])
  \o Concat([i \in 1..Len(o.STATUS_ZONES) |-> Present(<<<<"zone", o.STATUS_ZONES[i].ID>>>>, devs)])
Matched(msg, devs, bare) ==
  LET objects == RoutedObjects(msg)
  IN Concat([i \in 1..Len(objects) |-> MatchedBy(objects[i], devs, bare)])
\* The update callbacks of the step are those of the matched devices, one each
\* and in order, every one made with the entry as the record has left it, and a
\* light is on exactly if the record says STA = ON.
UpdatesThenNotifies(bare) ==
  (IsMessage(ev') /\ ~IsDiscovery(ev') /\ ev'.result = "handled") =>
    /\ Called("onDeviceStatusUpdate", notified') = Matched(ev'.data.msg, devices, bare)
    /\ \A i \in 1..Len(notified') : notified'[i].device = devices'[notified'[i].device.id]
    /\ \A o \in Range(RoutedObjects(ev'.data.msg)) :
         \A r \in Range(o.STATUS_OUTPUTS) :
           <<"light", r.ID>> \in Ids(devices) =>
             devices'[<<"light", r.ID>>].status.on = (r.STA = "ON")

\* C16 as claimed: every status record that matches a registered light, cover,
\* zone or sensor updates the entry and then invokes on-device-status-update
\* exactly once for that device.
C16_EveryMatchingRecord == [][UpdatesThenNotifies(TRUE)]_vars

\* C16 as amended: the same, except that a sensor record without a DOMUS object
\* is skipped: it updates nothing and invokes no callback.
C16_EveryRecordWithData == [][UpdatesThenNotifies(FALSE)]_vars

C16_LightSwitchedOn ==
  /\ IsMessage(ev) /\ ev.data.msg.CMD = "REALTIME"
  /\ Called("onDeviceStatusUpdate", notified) = <<<<"light", "1">>, <<"cover", "1">>>>
  /\ notified[1].device.status.on
  /\ devices[<<"light", "1">>].status = [on |-> TRUE, brightness |-> 30, dimmable |-> TRUE]

\* C17: an inbound frame that cannot be decoded, or whose handling fails, is
\* dropped: the step leaves the sockets, the connection state and every timer as
\* they are, writes nothing and does nothing but log the error.
C17_BadFrameIsDropped ==
  [][(ev'.op = "message" /\ ev'.result = "dropped") =>
       /\ UNCHANGED <<ws, isConnected, idLogin, sock, promise, reconnectAttempts>>
       /\ UNCHANGED <<heartbeatTimer, heartbeatPending, lastPongAge, intervals>>
       /\ UNCHANGED <<reconnectTimer, timers, delay>>
       /\ wrote' = <<>>
       /\ calls' = <<"log.error">>]_vars

C17_DroppedWhileReady ==
  /\ ev.op = "message" /\ ev.result = "dropped" /\ ev.data.text = "garbage"
  /\ Ready /\ isConnected /\ heartbeatTimer = "live" /\ heartbeatPending
  /\ calls = <<"log.error">>

SensorIds(n) == <<<<"sensor_temp", n>>, <<"sensor_hum", n>>, <<"sensor_light", n>>>>
IsMultiTypes(e) == IsDiscovery(e) /\ e.result = "handled" /\ e.data.msg.PAYLOAD_TYPE = "MULTI_TYPES"

\* C19: one bus-sensor discovery record with identifier N yields exactly the
\* three registry entries sensor_temp_N, sensor_hum_N and sensor_light_N, of
\* sensor types temperature, humidity and light, and exactly three
\* on-device-discovered callbacks.
C19_SensorFanOut ==
  IsMultiTypes(ev) =>
    \A b \in Range(ev.data.msg.PAYLOAD.BUS_HAS) :
      /\ {k \in Ids(devices) : devices[k].type = "sensor" /\ k[2] = b.ID} = Range(SensorIds(b.ID))
      /\ devices[<<"sensor_temp", b.ID>>].status.sensorType = "temperature"
      /\ devices[<<"sensor_hum", b.ID>>].status.sensorType = "humidity"
      /\ devices[<<"sensor_light", b.ID>>].status.sensorType = "light"
      /\ SelectSeq(Called("onDeviceDiscovered", notified),
                   LAMBDA id : id[2] = b.ID /\ id \in Range(SensorIds(b.ID))) = SensorIds(b.ID)
      /\ \A i \in 1..Len(notified) :
           notified[i].device.id \in Range(SensorIds(b.ID)) =>
             notified[i] = [cb |-> "onDeviceDiscovered", device |-> devices[notified[i].device.id]]

C19_ThreeSensors ==
  /\ IsMultiTypes(ev)
  /\ ev.data.msg.PAYLOAD.BUS_HAS = <<BusHaData("1", "Living")>>
  /\ Called("onDeviceDiscovered", notified) = SensorIds("1")
  /\ Ids(devices) = Range(SensorIds("1"))

\* The scenario records of a discovery response that are not arm/disarm toggles.
Automations(scenarios) == SelectSeq(scenarios, LAMBDA sc : sc.CAT \notin {"ARM", "DISARM"})

\* C20: a scenario discovery record whose CAT is ARM or DISARM creates no
\* registry entry and triggers no on-device-discovered; every other scenario
\* record creates scenario_<id> with active = false and is reported once.
C20_ScenarioFilter ==
  [][IsMultiTypes(ev') =>
       LET scenarios == ev'.data.msg.PAYLOAD.SCENARIOS
           created == Automations(scenarios)
       IN /\ SelectSeq(Called("onDeviceDiscovered", notified'), LAMBDA id : id[1] = "scenario")
               = [i \in 1..Len(created) |-> <<"scenario", created[i].ID>>]
          /\ \A sc \in Range(created) :
               /\ <<"scenario", sc.ID>> \in Ids(devices')
               /\ devices'[<<"scenario", sc.ID>>].status = [active |-> FALSE]
          /\ \A sc \in Range(scenarios) \ Range(created) :
               <<"scenario", sc.ID>> \notin Ids(devices') \ Ids(devices)]_vars

C20_ArmSkippedNightCreated ==
  /\ IsMultiTypes(ev)
  /\ Len(ev.data.msg.PAYLOAD.SCENARIOS) = 2
  /\ ev.data.msg.PAYLOAD.SCENARIOS[1].CAT = "ARM"
  /\ <<"scenario", "1">> \in Ids(devices) /\ <<"scenario", "2">> \notin Ids(devices)

\* The value of the CRC_16 field of a serialized message.
CrcField(s) == SubSeq(s, Len(s) - 7, Len(s) - 2)
\* Values the CRC_16 field may hold in place of the placeholder: other digits, an
\* empty and a longer value.
OtherValues == {<<48, 120, 102, 102, 102, 102>>, <<>>, <<48, 120, 49, 50, 51, 52, 53>>}

\* C18: the checksum transmitted equals the checksum recomputed over the final
\* serialized message, the one with the real checksum in place: the computation
\* stops right after the CRC_16 key label, so whatever value replaces the
\* placeholder the result is the same.
C18_ChecksumIgnoresItsValue ==
  sent # <<>> =>
    /\ CrcField(sent) = calculateCRC16(sent)
    /\ \A v \in OtherValues : calculateCRC16(stringify(body, v)) = CrcField(sent)

C18_SentMultiByte ==
  /\ sent # <<>>
  /\ body = <<Quote, 8364, 55357, 56832>>
  \* the checksum of {"PAYLOAD":"\"<euro><pair>","CRC_16":"0x0000"} is 0x7649
  /\ CrcField(sent) = <<48, 120, 55, 54, 52, 57>>

\* ------------------------------------------------- session and heartbeat
DiscoveryCommands == {"READ", "REALTIME"}
LoginRefused(e) == e.op = "loginRes" /\ e.result # "OK"

\* C28: the handler of a LOGIN_RES whose RESULT is not OK writes no frame, so none
\* of the discovery requests, leaves the heartbeat timer and its bookkeeping as
\* they were, and stores no token: no token was accepted on that socket, so the
\* token the client holds (if any) is not one accepted on it.  No handler ever
\* writes a discovery request on a socket without an accepted login.
C28_RefusedLoginStartsNothing ==
  [][/\ LoginRefused(ev') =>
          /\ wrote' = <<>>
          /\ UNCHANGED <<heartbeatTimer, intervals, heartbeatPending, lastPongAge, idLogin>>
          /\ tokenOf'[ev'.sock] = None
     /\ \A i \in 1..Len(wrote') :
          wrote'[i].cmd \in DiscoveryCommands => tokenOf'[wrote'[i].sock] # None]_vars

\* a refusal on the open socket of a client that holds the token of an earlier socket
C28_RefusedAfterEarlierSession ==
  LoginRefused(ev) /\ ev.sock = ws /\ sock[ws] = "open" /\ idLogin # None

\* C29: every CMD_USR frame written carries as ID_LOGIN the token the client
\* holds and as PIN the configured secret; the marker 'true' of the command
\* builders is the ID_LOGIN or the PIN of no frame written.
C29_MarkersReplaced ==
  /\ \A i \in 1..Len(wrote) :
       wrote[i].cmd = "CMD_USR" => (wrote[i].idLogin = idLogin /\ wrote[i].pin = Pin)
  /\ \A i \in 1..Len(wrote) : wrote[i].idLogin # Sentinel /\ wrote[i].pin # Sentinel

\* a scenario command sent with the token the panel assigned
C29_UserCommandSent ==
  /\ ev.op = "triggerScenario" /\ ev.result = "sent"
  /\ Len(wrote) = 1 /\ wrote[1].cmd = "CMD_USR" /\ wrote[1].idLogin = "2"

\* C26: a reconnection is forced only at a heartbeat tick that finds a probe
\* written on the current socket still unanswered and the last pong more than
\* twice the interval old; what an earlier socket left behind (the pending flag,
\* the time of its last pong, its interval timer) never gets a new socket
\* destroyed.
C26_ForcedOnlyByOwnProbe ==
  Has(calls, "forceReconnect") =>
    (ev.op = "tick" /\ ev.probe /\ ev.age > HeartbeatTimeoutFactor)

\* C27: a ping is written only by a handler that finds the connection READY: the
\* current socket open and a login accepted on it.
C27_ProbeOnlyWhenReady ==
  \A i \in 1..Len(wrote) : wrote[i].cmd = "ping" => ev.ready

\* The status field of a registered device is after the step what it was before.
Kept(id, field) == id \in Ids(devices) => devices'[id].status[field] = devices[id].status[field]
Omits(domus, key) == domus = NoDomus \/ domus[key] = Undefined

\* C25: a status record for a known device changes only the fields it carries a
\* value for: a light keeps its brightness when POS is omitted, a cover its
\* position and target when POS and TPOS are, a zone its bypassed, armed and
\* fault flags when BYP, A and FM are, a sensor its value when its reading is.
C25_OmittedFieldsKept ==
  [][(IsMessage(ev') /\ ~IsDiscovery(ev')) =>
       /\ \A r \in RecordsOf(ev'.data.msg, "STATUS_OUTPUTS") :
            /\ r.POS = Undefined =>
                 (Kept(<<"light", r.ID>>, "brightness") /\ Kept(<<"cover", r.ID>>, "position"))
            /\ r.TPOS = Undefined => Kept(<<"cover", r.ID>>, "targetPosition")
       /\ \A r \in RecordsOf(ev'.data.msg, "STATUS_ZONES") :
            /\ r.BYP = Undefined => Kept(<<"zone", r.ID>>, "bypassed")
            /\ r.A = Undefined => Kept(<<"zone", r.ID>>, "armed")
            /\ r.FM = Undefined => Kept(<<"zone", r.ID>>, "fault")
       /\ \A r \in RecordsOf(ev'.data.msg, "STATUS_BUS_HA_SENSORS") :
            /\ Omits(r.DOMUS, "TEM") => Kept(<<"sensor_temp", r.ID>>, "value")
            /\ Omits(r.DOMUS, "HUM") => Kept(<<"sensor_hum", r.ID>>, "value")
            /\ Omits(r.DOMUS, "LHT") => Kept(<<"sensor_light", r.ID>>, "value")]_vars

\* ------------------------------------------------------------ the secret
\* C23: no line the client logs shows the configured PIN: every outgoing frame
\* that carries a PIN (LOGIN, and CMD_USR once the markers are replaced) is logged
\* as maskSensitiveData leaves it.
C23_LogsAreMasked ==
  \A i \in 1..Len(logged) :
    /\ logged[i].pin # Pin
    /\ logged[i] = maskSensitiveData(logged[i])

\* --------------------------------------------------------- cover movement
IsNumber(s) == s # Undefined /\ parseInt(s) # NaN
KeywordState(sta) ==
  CASE toUpperCase(sta) \in {"UP", "OPEN"} -> "opening"
    [] toUpperCase(sta) \in {"DOWN", "CLOSE"} -> "closing"
    [] OTHER -> "stopped"
\* The motion state the record of a cover stands for.
MotionOf(r) ==
  IF IsNumber(r.POS) /\ IsNumber(r.TPOS)
  THEN IF parseInt(r.POS) = parseInt(r.TPOS) THEN "stopped"
       ELSE IF parseInt(r.POS) < parseInt(r.TPOS) THEN "opening" ELSE "closing"
  ELSE KeywordState(r.STA)

\* C30: after a status record of a known cover, the motion state of the cover is
\* stopped, opening or closing as the current position equals, is below or is
\* above the target when the record carries both; when the two cannot be
\* compared the keyword decides: UP or OPEN opening, DOWN or CLOSE closing, STOP
\* and anything else stopped.
C30_MotionState ==
  (IsMessage(ev) /\ ev.result = "handled") =>
    \A r \in RecordsOf(ev.data.msg, "STATUS_OUTPUTS") :
      <<"cover", r.ID>> \in Ids(devices) =>
        devices[<<"cover", r.ID>>].status.state = MotionOf(r)

\* ------------------------------------------------------ simulated movement
SimulationEnded == Len(cover'.moveIntervals) < Len(cover.moveIntervals)

\* C21: a cover has at most one movement timer alive: a new target command
\* cancels the simulation still running. When a simulation ends and the position
\* state becomes stopped, the current position is the target commanded last.
C21_OneSimulation ==
  [][/\ Len(cover'.moveIntervals) <= 1
     /\ (SimulationEnded /\ cover'.positionState = 2) =>
          cover'.currentPosition = cover'.targetPosition]_vars

\* ------------------------------------------------------------ debug capture
\* The PIN a text or a parsed message carries, None without one.
PinOf(x) == IF "pin" \in DOMAIN x THEN x.pin ELSE None
Stored == Range(capture.rawMessages) \cup (IF capture.file = NoFile THEN {} ELSE Range(capture.file))

\* C22: no record the debug capture stores, and so none in the file it writes,
\* shows the PIN of a captured frame: of a frame whose payload has a PIN both the
\* stored text and the stored parsed form carry the mask.
C22_CaptureIsMasked ==
  \A r \in Stored :
    /\ PinOf(JSONparse(r.rawData)) \in {None, CaptureMask}
    /\ PinOf(r.parsed) \in {None, CaptureMask}

\* ----------------------------------------------------------- zone accessory
ZoneFlags == {"open", "armed", "fault", "bypassed"}
\* The updateCharacteristic call that shows the flag of a zone status.
PushOf(flag, status) ==
  CASE flag = "open" -> [characteristic |-> "ContactSensorState", value |-> Bit(status.open)]
    [] flag = "armed" -> [characteristic |-> "StatusActive", value |-> status.armed]
    [] flag = "fault" -> [characteristic |-> "StatusFault", value |-> Bit(status.fault)]
    [] flag = "bypassed" -> [characteristic |-> "StatusTampered", value |-> Bit(status.bypassed)]
FlagChanged(id, flag) ==
  /\ id \in Ids(devices) /\ id \in DOMAIN handlers
  /\ devices'[id].status[flag] # devices[id].status[flag]

\* C24: when a status frame changes the open, armed, fault or bypassed flag of a
\* zone that was discovered and is not excluded, the accessory of the zone pushes
\* the new value of the characteristic of that flag during the callback.
C24_ZoneChangePushed ==
  [][(IsMessage(ev') /\ ~IsDiscovery(ev')) =>
       \A id \in {<<"zone", z>> : z \in ZoneIds}, flag \in ZoneFlags :
         FlagChanged(id, flag) => Has(pushed', PushOf(flag, devices'[id].status))]_vars

\* ------------------------------------------------------ kinds of outputs
OutputKinds == {"light", "cover", "thermostat", "gate"}
CategoryOf(r) == toUpperCase(Coalesce(r.CAT, Coalesce(r.TYPE, "")))
OutputRecords(e) ==
  IF IsDiscovery(e) /\ e.data.msg.PAYLOAD # NoPayload
  THEN Range(e.data.msg.PAYLOAD.OUTPUTS) \ {NullRecord} ELSE {}
\* The registry entries the output records of a discovery frame stand for.
OutputIds(e) ==
  {<<"light", r.ID>> : r \in {o \in OutputRecords(e) : CategoryOf(o) = "LIGHT"}}
  \cup {<<"cover", r.ID>> : r \in {o \in OutputRecords(e) : CategoryOf(o) \in {"ROLL", "GATE"}}}

wireBytes(s) ==
  LET from[i \in 1..(Len(s) + 2)] ==
        IF i > Len(s) THEN <<>>
        ELSE LET c == s[i]
             IN IF c < 128 THEN <<c>> \o from[i + 1]
                ELSE IF c < 2048 THEN <<192 + (c \div 64), 128 + (c % 64)>> \o from[i + 1]
                ELSE IF c < 55296 \/ c >= 57344 \/ i = Len(s)
                  THEN <<224 + (c \div 4096), 128 + ((c \div 64) % 64), 128 + (c % 64)>>
                       \o from[i + 1]
                ELSE LET point == 65536 + (c % 1024) * 1024 + (s[i + 1] % 1024)
                     IN <<240 + (point \div 262144), 128 + ((point \div 4096) % 64),
                          128 + ((point \div 64) % 64), 128 + (point % 64)>>
                        \o from[i + 2]
  IN from[1]

\* Another character of the same length on the wire.
Nearby(c) ==
  CASE c = 65 -> 66 [] c = 233 -> 234 [] c = 8364 -> 8365
    [] c = 55357 -> 55358 [] c = 56832 -> 56896 [] OTHER -> c
\* The two serializations differ in exactly one byte, and it lies before the stop point.
OneByteApart(a, b) ==
  LET x == wireBytes(a)
      y == wireBytes(b)
      stop == lastIndexOf(a, CrcKey) + Len(CrcKey) + (Len(x) - Len(a))
  IN /\ Len(x) = Len(y)
     /\ Cardinality({k \in 1..Len(x) : x[k] # y[k]}) = 1
     /\ \A k \in 1..Len(x) : x[k] # y[k] => k <= stop

\* C33: a message that differs from the message sent in one byte before the
\* checksum stop point (the end of the CRC_16 key) has another checksum.
C33_ByteChangeDetected ==
  sent # <<>> =>
    \A i \in 1..Len(body) :
      LET other == [body EXCEPT ![i] = Nearby(@)]
          a == stringify(body, Placeholder)
          b == stringify(other, Placeholder)
      IN OneByteApart(a, b) => calculateCRC16(b) # calculateCRC16(a)

\* ---------------------------------------------------------------------------
\* The platform: exclusion lists and the accessories of the devices
\* ---------------------------------------------------------------------------

\* The panel identifier of the device is in the exclusion list of its kind.
ExcludedId(id) ==
  \/ id[1] = "zone" /\ id[2] \in ExcludeZones
  \/ id[1] \in {"light", "cover", "thermostat"} /\ id[2] \in ExcludeOutputs
  \/ id[1] \in {"sensor_temp", "sensor_hum", "sensor_light"} /\ id[2] \in ExcludeSensors
  \/ id[1] = "scenario" /\ id[2] \in ExcludeScenarios

\* C34: whatever discovery and status-update callbacks arrive, a device whose
\* panel identifier is in the exclusion list of its kind has no handler and no
\* accessory was ever registered with the host for it.
C34_ExcludedNeverExposed ==
  \A id \in DOMAIN handlers \cup DOMAIN registered :
     ExcludedId(id) => id \notin DOMAIN handlers /\ Registrations(registered, id) = 0

\* An excluded zone, which the client knows, has just reported a change, and the
\* devices that are not excluded have their handlers.
C34_ExcludedZoneChanged ==
  /\ ev.op = "message" /\ ev.result = "handled"
  /\ Has(Called("onDeviceStatusUpdate", notified), <<"zone", "2">>)
  /\ {<<"zone", "2">>, <<"cover", "2">>, <<"scenario", "3">>, <<"sensor_temp", "2">>}
       \subseteq Ids(devices)
  /\ {<<"zone", "1">>, <<"light", "1">>, <<"scenario", "1">>, <<"sensor_temp", "1">>}
       \subseteq DOMAIN handlers
  /\ <<"zone", "2">> \in accessories

\* C35: whatever discovery callbacks arrive, also after a reconnection, a device
\* identifier has at most one accessory and one handler, the handler belongs to
\* the accessory, and an accessory is registered with the host only for an
\* identifier that has none, hence at most once.
C35_OneAccessoryPerDevice ==
  [][/\ \A id \in DOMAIN registered' :
          /\ registered'[id] <= 1
          /\ Registrations(registered, id) < registered'[id] => id \notin accessories
     /\ DOMAIN registered' \subseteq accessories'
     /\ DOMAIN handlers' \subseteq accessories']_vars

\* The reconnection timer has run and the panel reports the zones on the new
\* connection: the zone restored from the cache has its handler and was never
\* registered, the light was registered once.
C35_Rediscovered ==
  /\ ev.op = "message" /\ reconnectTimer = "fired" /\ ev.result = "handled"
  /\ Has(Called("onDeviceDiscovered", notified), <<"zone", "1">>)
  /\ <<"zone", "1">> \in DOMAIN handlers /\ Registrations(registered, <<"zone", "1">>) = 0
  /\ Registrations(registered, <<"light", "1">>) = 1

\* ---------------------------------------------------------------------------
\* The reconnect timer and the connection callbacks
\* ---------------------------------------------------------------------------

\* C36: at most one reconnect timer is pending at any time: a scheduling that
\* finds one pending replaces it, also when one failed attempt is reported by
\* the close event of its socket and by the rejected connect().
C36_OneReconnectTimer ==
  /\ timers <= 1
  /\ Has(calls, "scheduleReconnect") => timers = 1 /\ reconnectTimer = "pending"

\* A reconnection attempt failed: the close handler and the catch of connect()
\* both scheduled, and one timer is pending.
C36_FailureReportedTwice ==
  /\ ev.op = "close" /\ attemptsMade > 0
  /\ Count(calls, "scheduleReconnect") = 2
  /\ timers = 1

\* The connection callbacks the last handler made, each with the one made before it.
Alternates(before, seq) ==
  \A i \in 1..Len(seq) :
     seq[i] # (IF i = 1 THEN (IF before = "none" THEN "onDisconnected" ELSE before)
               ELSE seq[i - 1])

\* C37: onConnected and onDisconnected alternate strictly and onConnected comes
\* first, so onDisconnected is called once for a connection that was lost, also
\* when the heartbeat forced the close, and never for an attempt that did not
\* call onConnected.
C37_CallbacksAlternate ==
  [][/\ Alternates(lastCallback, ConnectionCallbacks(calls'))
     /\ (ev'.op = "close" /\ ev'.sock = ws /\ lastCallback = "onConnected")
          => Has(calls', "onDisconnected")]_vars

\* ---------------------------------------------------------------------------
\* The debug capture over several captures
\* ---------------------------------------------------------------------------

\* The frames the last handler received or sent on the sockets the capture has hooked.
RECURSIVE SentOnHooked(_, _)
SentOnHooked(wr, s) ==
  IF s = 0 THEN 0
  ELSE (IF capture.hooks[s] > 0 THEN Len(SentOn([wrote |-> wr], s)) ELSE 0)
       + SentOnHooked(wr, s - 1)

FramesOnHooked(e, tokens, wr) ==
  (IF e.sock # NoSock /\ capture.hooks[e.sock] > 0
   THEN Len(InboundText([tokenOf |-> tokens], e)) ELSE 0)
  + SentOnHooked(wr, MaxSockets)

\* C39: while a debug capture runs, every frame received or sent on the hooked
\* socket is recorded exactly once, in the first capture and in a later capture
\* on the same socket; startCapture during a capture changes nothing; the end of
\* a capture records the END snapshot and no frame, and after it no frame and
\* no snapshot is recorded.
C39_EveryFrameOnce ==
  [][/\ capture.isCapturing => startCapture(capture, ws) = capture
     /\ (capture.isCapturing /\ capture'.isCapturing) =>
          IF capture'.deviceSnapshots # capture.deviceSnapshots
          THEN capture'.rawMessages = capture.rawMessages
          ELSE Len(capture'.rawMessages)
                 = Len(capture.rawMessages) + FramesOnHooked(ev', tokenOf', wrote')
     /\ (capture.isCapturing /\ ~capture'.isCapturing) =>
          /\ capture'.rawMessages = capture.rawMessages
          /\ capture'.deviceSnapshots = Append(capture.deviceSnapshots, "END")
     /\ (~capture.isCapturing /\ ~capture'.isCapturing) =>
          /\ capture'.rawMessages = capture.rawMessages
          /\ capture'.deviceSnapshots = capture.deviceSnapshots
          /\ capture'.file = capture.file]_vars
====
